---- MODULE Spec2Model ----
(***************************************************************************)
(* A model of the OUI lookup library (package oui): the MAC prefix parser  *)
(* ParseMac, the registry parser scanOUI, the static store and the         *)
(* updateable store with its sync.RWMutex, and the Update orchestration.   *)
(*                                                                         *)
(* The repository holds two revisions of the store file: src/oui.go and    *)
(* src/unnamed/part_001.  They share ParseMac, scanOUI, LookUp,            *)
(* UpdateEntry, DeleteEntry and Update, and differ in Generated and        *)
(* generatedAt of the updateable store.  The variable impl says which      *)
(* revision a behaviour runs.                                              *)
(*                                                                         *)
(* Go strings are TLA+ strings (ASCII only), byte slices of them SubSeq.   *)
(***************************************************************************)
EXTENDS Integers, Sequences, FiniteSets, TLC

(***************************************************************************)
(* Strings                                                                 *)
(***************************************************************************)
Ch(s, i) == SubSeq(s, i, i)

CharSet(s) == {Ch(s, i) : i \in 1..Len(s)}

RECURSIVE IndexFrom(_, _, _)
\* The least index >= i of the one-character string c in s, 0 if there is none.
IndexFrom(s, c, i) ==
    IF i > Len(s) THEN 0
    ELSE IF Ch(s, i) = c THEN i
    ELSE IndexFrom(s, c, i + 1)

RECURSIVE Split(_, _)
\* strings.Split(s, sep) for a one-character separator.
Split(s, sep) ==
    LET i == IndexFrom(s, sep, 1)
    IN  IF i = 0 THEN <<s>>
        ELSE <<SubSeq(s, 1, i - 1)>> \o Split(SubSeq(s, i + 1, Len(s)), sep)

RECURSIVE TrimLeft(_, _)
TrimLeft(s, cutset) ==
    IF Len(s) > 0 /\ Ch(s, 1) \in cutset
    THEN TrimLeft(SubSeq(s, 2, Len(s)), cutset)
    ELSE s

RECURSIVE TrimRight(_, _)
TrimRight(s, cutset) ==
    IF Len(s) > 0 /\ Ch(s, Len(s)) \in cutset
    THEN TrimRight(SubSeq(s, 1, Len(s) - 1), cutset)
    ELSE s

\* strings.Trim(s, cutset), the cutset given as a set of characters.
Trim(s, cutset) == TrimRight(TrimLeft(s, cutset), cutset)

\* The ASCII white space of unicode.IsSpace and of fmt's isSpace: the
\* characters 0x09 to 0x0D and the space.  The third string holds the
\* vertical tab 0x0B, for which TLA+ has no escape.
asciiSpace == {" ", "\t", "", "\n", "\r", "\f"}

TrimSpace(s) == Trim(s, asciiSpace)

HasPrefix(s, p) == Len(s) >= Len(p) /\ SubSeq(s, 1, Len(p)) = p

decimalDigits == "0123456789"

hexadecimalDigits == "0123456789aAbBcCdDeEfF"

upperLetters == "ABCDEFGHIJKLMNOPQRSTUVWXYZ"

lowerLetters == "abcdefghijklmnopqrstuvwxyz"

DigitChars == CharSet(decimalDigits)

HexChars == CharSet(hexadecimalDigits)

\* The character class [0-9a-zA-Z] of scanOUI's pattern.
AlnumChars == DigitChars \cup CharSet(upperLetters) \cup CharSet(lowerLetters)

\* ASCII lower case of one character.
Lower(c) ==
    LET i == IndexFrom(upperLetters, c, 1)
    IN  IF i = 0 THEN c ELSE Ch(lowerLetters, i)

\* The value of one hexadecimal digit.
HexVal(c) ==
    LET d == IndexFrom(decimalDigits, c, 1)
        l == IndexFrom("abcdef", Lower(c), 1)
    IN  IF d > 0 THEN d - 1 ELSE 9 + l

RECURSIVE HexPrefixLen(_, _)
\* The length of the longest run of hexadecimal digits of s that starts at i.
HexPrefixLen(s, i) ==
    IF i <= Len(s) /\ Ch(s, i) \in HexChars
    THEN 1 + HexPrefixLen(s, i + 1)
    ELSE 0

RECURSIVE HexNum(_)
HexNum(tok) ==
    IF tok = "" THEN 0
    ELSE 16 * HexNum(SubSeq(tok, 1, Len(tok) - 1)) + HexVal(Ch(tok, Len(tok)))

RECURSIVE DecNum(_)
\* The value of a string of decimal digits.
DecNum(tok) ==
    IF tok = "" THEN 0
    ELSE 10 * DecNum(SubSeq(tok, 1, Len(tok) - 1))
            + (IndexFrom(decimalDigits, Ch(tok, Len(tok)), 1) - 1)

AllDigits(s) == \A i \in 1..Len(s) : Ch(s, i) \in DigitChars

(***************************************************************************)
(* Errors.  An error value is a record; NilErr is Go's nil error.          *)
(***************************************************************************)
NilErr == [kind |-> "nil", Reason |-> "", Mac |-> ""]

ErrNotFound == [kind |-> "ErrNotFound", Reason |-> "not found", Mac |-> ""]

\* var ErrNotUpdateable = errors.New("database not updateable")
ErrNotUpdateable == [kind |-> "ErrNotUpdateable", Reason |-> "database not updateable", Mac |-> ""]

ErrInvalidMac(reason, mac) == [kind |-> "ErrInvalidMac", Reason |-> reason, Mac |-> mac]

(***************************************************************************)
(* ParseMac (hardwareaddr.go)                                              *)
(***************************************************************************)
\* fmt.Sscanf(p, "%x", &b) for b a byte: leading white space is skipped, then
\* the longest run of hexadecimal digits is the token; n is the number of
\* values stored (0 when no digit is found), b the token's value, err the
\* text of the error.  When only white space is left the error is io.EOF.
\* A token that does not fit 64 bits (more than 16 digits after its leading
\* zeros) is refused by strconv.ParseUint, one above 255 (more than 2) by
\* the test of the byte's width; neither stores a value.
Sscanf_x(p) ==
    LET q   == TrimLeft(p, asciiSpace \ {"\n"})
        k   == HexPrefixLen(q, 1)
        tok == SubSeq(q, 1, k)
        sig == TrimLeft(tok, {"0"})
    IN  IF q = ""
        THEN [n |-> 0, b |-> 0, err |-> "EOF"]
        ELSE IF Ch(q, 1) = "\n"
        THEN [n |-> 0, b |-> 0, err |-> "unexpected newline"]
        ELSE IF k = 0
        THEN [n |-> 0, b |-> 0, err |-> "expected integer"]
        ELSE IF Len(sig) > 16
        THEN [n |-> 0, b |-> 0,
              err |-> "strconv.ParseUint: parsing \"" \o tok \o "\": value out of range"]
        ELSE IF Len(sig) > 2
        THEN [n |-> 0, b |-> 0, err |-> "unsigned integer overflow on token " \o tok]
        ELSE [n |-> 1, b |-> HexNum(sig), err |-> ""]

RECURSIVE Pairs(_)
\* for i := 0; i < len(mac)-1; i += 2 { s = append(s, mac[i:i+2]) }
Pairs(mac) ==
    IF Len(mac) < 2 THEN <<>>
    ELSE <<SubSeq(mac, 1, 2)>> \o Pairs(SubSeq(mac, 3, Len(mac)))

\* A split that takes every text for an unseparated one.
MacElements_pairs(mac) == Pairs(mac)

\* The elements ParseMac splits mac into (mac has at least 6 characters).
MacElements(mac) ==
    IF Ch(mac, 3) = ":" \/ Ch(mac, 3) = "-"
    THEN Split(mac, Ch(mac, 3))
    ELSE Pairs(mac)

\* An element check without the test of the length.
ElementErr_unmeasured(s, i, mac) ==
    IF Sscanf_x(s[i]).n # 1
    THEN ErrInvalidMac("Address element " \o ToString(i) \o " (" \o s[i]
                          \o ") cannot be parsed as hex value: " \o Sscanf_x(s[i]).err, mac)
    ELSE NilErr

\* The error of element i (1-based) of s, NilErr if it is well formed.
ElementErr(s, i, mac) ==
    IF Len(s[i]) # 2
    THEN ErrInvalidMac("Address element " \o ToString(i) \o " (" \o s[i]
                          \o ") is not 2 characters", mac)
    ELSE IF Sscanf_x(s[i]).n # 1
    THEN ErrInvalidMac("Address element " \o ToString(i) \o " (" \o s[i]
                          \o ") cannot be parsed as hex value: " \o Sscanf_x(s[i]).err, mac)
    ELSE NilErr

\* ParseMac(mac): hw is <<>> for a nil *HardwareAddr, else <<the 3 bytes>>.
ParseMac(mac) ==
    IF Len(mac) < 6
    THEN [hw  |-> <<>>,
          err |-> ErrInvalidMac("Mac address too short. Should be at least 6 characters", mac)]
    ELSE
    LET s == MacElements(mac)
    IN  IF Len(s) < 3
        THEN [hw  |-> <<>>,
              err |-> ErrInvalidMac("Unable to find at least 3 address elements", mac)]
        ELSE IF \E i \in 1..3 : ElementErr(s, i, mac) # NilErr
        THEN [hw  |-> <<>>,
              err |-> ElementErr(s, CHOOSE i \in 1..3 :
                                       /\ ElementErr(s, i, mac) # NilErr
                                       /\ \A j \in 1..(i - 1) : ElementErr(s, j, mac) = NilErr,
                                 mac)]
        ELSE [hw  |-> << <<Sscanf_x(s[1]).b, Sscanf_x(s[2]).b, Sscanf_x(s[3]).b>> >>,
              err |-> NilErr]

\* HardwareAddr.Local and HardwareAddr.Multicast.
Local(h) == (h[1] \div 2) % 2 = 1

Multicast(h) == h[1] % 2 = 1

(***************************************************************************)
(* bufio.Scanner with bufio.ScanLines                                      *)
(***************************************************************************)
\* dropCR: a line's trailing carriage return is not part of the token.
dropCR(data) ==
    IF Len(data) > 0 /\ Ch(data, Len(data)) = "\r"
    THEN SubSeq(data, 1, Len(data) - 1)
    ELSE data

RECURSIVE ScanLines(_)
\* The tokens Scan delivers for the bytes data: the lines without their end
\* of line; a last line without newline is delivered when it is not empty.
\* The scanner delivers the same tokens whether the reader ends the bytes
\* with io.EOF or with a read error (the error is kept for Scanner.Err).
ScanLines(data) ==
    IF data = "" THEN <<>>
    ELSE LET i == IndexFrom(data, "\n", 1)
         IN  IF i = 0 THEN <<dropCR(data)>>
             ELSE <<dropCR(SubSeq(data, 1, i - 1))>>
                      \o ScanLines(SubSeq(data, i + 1, Len(data)))

(***************************************************************************)
(* time.Parse("Mon, 2 Jan 2006 15:04:05 -0700", value)                     *)
(***************************************************************************)
shortDayNames == <<"sun", "mon", "tue", "wed", "thu", "fri", "sat">>

shortMonthNames == <<"jan", "feb", "mar", "apr", "may", "jun",
                     "jul", "aug", "sep", "oct", "nov", "dec">>

\* lookup: the 1-based index of the name that value starts with, letters
\* compared without case; 0 if there is none.
lookup(tab, value) ==
    LET hit(i) == /\ Len(value) >= 3
                  /\ Lower(Ch(value, 1)) \o Lower(Ch(value, 2)) \o Lower(Ch(value, 3)) = tab[i]
    IN  IF \E i \in 1..Len(tab) : hit(i)
        THEN CHOOSE i \in 1..Len(tab) : hit(i)
        ELSE 0

\* getnum(s, fixed): one or two leading digits (exactly two when fixed).
getnum(s, fixed) ==
    IF ~(Len(s) >= 1 /\ Ch(s, 1) \in DigitChars)
    THEN [ok |-> FALSE, n |-> 0, rest |-> s]
    ELSE IF ~(Len(s) >= 2 /\ Ch(s, 2) \in DigitChars)
    THEN [ok |-> ~fixed, n |-> DecNum(Ch(s, 1)), rest |-> SubSeq(s, 2, Len(s))]
    ELSE [ok |-> TRUE, n |-> DecNum(SubSeq(s, 1, 2)), rest |-> SubSeq(s, 3, Len(s))]

\* skip for a layout space: the value continues with spaces, or has ended.
skipSpace(value) ==
    [ok   |-> value = "" \/ Ch(value, 1) = " ",
     rest |-> TrimLeft(value, {" "})]

\* skip for the layout character c.
skipChar(value, c) ==
    [ok |-> HasPrefix(value, c), rest |-> SubSeq(value, 2, Len(value))]

isLeap(year) == year % 4 = 0 /\ (year % 100 # 0 \/ year % 400 = 0)

daysIn(month, year) ==
    IF month = 2 THEN (IF isLeap(year) THEN 29 ELSE 28)
    ELSE IF month \in {4, 6, 9, 11} THEN 30 ELSE 31

\* The digits of a fractional second that may follow the seconds.
fracLen(value) ==
    IF Len(value) >= 2 /\ Ch(value, 1) \in {".", ","} /\ Ch(value, 2) \in DigitChars
    THEN 1 + (CHOOSE k \in 1..Len(value) :
                 /\ AllDigits(SubSeq(value, 2, k + 1))
                 /\ (k + 2 > Len(value) \/ Ch(value, k + 2) \notin DigitChars))
    ELSE 0

\* time.Time{}: the zero time, what Generated returns when no time was set.
ZeroTime == [year |-> 1, month |-> 1, day |-> 1, hour |-> 0, min |-> 0, sec |-> 0,
             nsec |-> 0, zone |-> 0]

\* The parse of value proceeds over the elements of the layout; its state is
\* what is left of value, the fields read so far, and whether an element has
\* failed.
parseStart(value) == [ok |-> TRUE, rest |-> value, t |-> ZeroTime]

\* "Mon": a weekday name, read and not compared with the date.
stdWeekDay(p) ==
    [p EXCEPT !.ok   = p.ok /\ lookup(shortDayNames, p.rest) # 0,
              !.rest = SubSeq(p.rest, 4, Len(p.rest))]

\* A literal character of the layout.
stdChar(p, c) ==
    [p EXCEPT !.ok = p.ok /\ skipChar(p.rest, c).ok, !.rest = skipChar(p.rest, c).rest]

\* A space of the layout.
stdSpace(p) ==
    [p EXCEPT !.ok = p.ok /\ skipSpace(p.rest).ok, !.rest = skipSpace(p.rest).rest]

\* "2": the day of the month, one or two digits.
stdDay(p) ==
    [p EXCEPT !.ok = p.ok /\ getnum(p.rest, FALSE).ok,
              !.rest = getnum(p.rest, FALSE).rest,
              !.t.day = getnum(p.rest, FALSE).n]

\* "Jan": a month name.
stdMonth(p) ==
    [p EXCEPT !.ok = p.ok /\ lookup(shortMonthNames, p.rest) # 0,
              !.rest = SubSeq(p.rest, 4, Len(p.rest)),
              !.t.month = lookup(shortMonthNames, p.rest)]

\* "2006": four digits.
stdLongYear(p) ==
    IF Len(p.rest) >= 4 /\ AllDigits(SubSeq(p.rest, 1, 4))
    THEN [p EXCEPT !.rest = SubSeq(p.rest, 5, Len(p.rest)),
                   !.t.year = DecNum(SubSeq(p.rest, 1, 4))]
    ELSE [p EXCEPT !.ok = FALSE]

\* "15": the hour, one or two digits, below 24.
stdHour(p) ==
    [p EXCEPT !.ok = p.ok /\ getnum(p.rest, FALSE).ok /\ getnum(p.rest, FALSE).n < 24,
              !.rest = getnum(p.rest, FALSE).rest,
              !.t.hour = getnum(p.rest, FALSE).n]

\* "04": the minute, two digits, below 60.
stdZeroMinute(p) ==
    [p EXCEPT !.ok = p.ok /\ getnum(p.rest, TRUE).ok /\ getnum(p.rest, TRUE).n < 60,
              !.rest = getnum(p.rest, TRUE).rest,
              !.t.min = getnum(p.rest, TRUE).n]

\* "05": the second, two digits, below 60.
stdZeroSecond(p) ==
    [p EXCEPT !.ok = p.ok /\ getnum(p.rest, TRUE).ok /\ getnum(p.rest, TRUE).n < 60,
              !.rest = getnum(p.rest, TRUE).rest,
              !.t.sec = getnum(p.rest, TRUE).n]

\* parseNanoseconds for the digits ds of a fraction: the first 9 count, and
\* fewer are scaled to nanoseconds.
parseNanoseconds(ds) ==
    LET d == SubSeq(ds, 1, IF Len(ds) > 9 THEN 9 ELSE Len(ds))
        scale == [n \in 0..9 |-> IF n = 0 THEN 1 ELSE IF n = 1 THEN 10 ELSE IF n = 2 THEN 100
                                 ELSE IF n = 3 THEN 1000 ELSE IF n = 4 THEN 10000
                                 ELSE IF n = 5 THEN 100000 ELSE IF n = 6 THEN 1000000
                                 ELSE IF n = 7 THEN 10000000 ELSE IF n = 8 THEN 100000000
                                 ELSE 1000000000]
    IN  DecNum(d) * scale[9 - Len(d)]

\* A fractional second is accepted after the seconds though the layout has
\* none; all its digits are consumed.
stdFrac(p) ==
    [p EXCEPT !.rest = SubSeq(p.rest, fracLen(p.rest) + 1, Len(p.rest)),
              !.t.nsec = parseNanoseconds(SubSeq(p.rest, 2, fracLen(p.rest)))]

\* "-0700": a sign and four digits, the hours at most 24, the minutes at
\* most 60; the zone is its offset in seconds.
stdNumTZ(p) ==
    IF /\ Len(p.rest) >= 5
       /\ Ch(p.rest, 1) \in {"+", "-"}
       /\ AllDigits(SubSeq(p.rest, 2, 5))
       /\ DecNum(SubSeq(p.rest, 2, 3)) <= 24
       /\ DecNum(SubSeq(p.rest, 4, 5)) <= 60
    THEN [p EXCEPT !.rest = SubSeq(p.rest, 6, Len(p.rest)),
                   !.t.zone = (IF Ch(p.rest, 1) = "-" THEN -1 ELSE 1)
                                 * (DecNum(SubSeq(p.rest, 2, 3)) * 60
                                    + DecNum(SubSeq(p.rest, 4, 5))) * 60]
    ELSE [p EXCEPT !.ok = FALSE]

\* The end of the layout: nothing may be left of value, and the day must be
\* one of the month.
parseEnd(p) ==
    IF /\ p.ok
       /\ p.rest = ""
       /\ p.t.day >= 1
       /\ p.t.day <= daysIn(p.t.month, p.t.year)
    THEN <<p.t>>
    ELSE <<>>

\* The time of value, <<>> when time.Parse returns an error, else <<t>>.
timeParse(value) ==
    parseEnd(stdNumTZ(stdSpace(stdFrac(stdZeroSecond(stdChar(stdZeroMinute(stdChar(
        stdHour(stdSpace(stdLongYear(stdSpace(stdMonth(stdSpace(stdDay(stdSpace(
            stdChar(stdWeekDay(parseStart(value)), ","))))))))),
        ":")), ":"))))))

(***************************************************************************)
(* Entries and the map type ouiDb (map[[3]byte]Entry)                      *)
(***************************************************************************)
\* A map value is a function whose domain is the set of keys it holds.
EmptyDb == <<>>

\* An assignment that leaves the map with the one entry.
MapSet_alone(db, hw, e) == (hw :> e)

\* db[hw] = e
MapSet(db, hw, e) == (hw :> e) @@ db

\* delete(db, hw)
MapDel(db, hw) == [k \in (DOMAIN db) \ {hw} |-> db[k]]

\* e, ok := db[hw]: the entry as <<e>>, or <<>> when ok is false.
MapGet(db, hw) == IF hw \in DOMAIN db THEN <<db[hw]>> ELSE <<>>

(***************************************************************************)
(* scanOUI (oui.go, part_001)                                              *)
(***************************************************************************)
local == 131072

multicast == 65536

\* A bit test that looks one byte too low.
BitSet_second(i, mask) == (i \div (mask \div 256)) % 2 = 1

\* i & mask != 0 for a mask of one bit.
BitSet(i, mask) == (i \div mask) % 2 = 1

\* Two characters of [0-9a-zA-Z] at i.
reAlnum2(s, i) ==
    i + 1 <= Len(s) /\ Ch(s, i) \in AlnumChars /\ Ch(s, i + 1) \in AlnumChars

\* (?:[0-9a-zA-Z]{2})[-:] at i.
reGroup(s, i) ==
    reAlnum2(s, i) /\ i + 2 <= Len(s) /\ Ch(s, i + 2) \in {"-", ":"}

\* The pattern with g groups matches at i.
reMatches(s, i, g) ==
    /\ \A j \in 0..(g - 1) : reGroup(s, i + 3 * j)
    /\ reAlnum2(s, i + 3 * g)

\* matches[0][1] of re.FindAllStringSubmatch(s, -1): the address of the
\* leftmost match, with as many groups (2 to 5) as match; "" with ok false
\* when the pattern matches nowhere.
reFirst(s) ==
    LET at(i) == \E g \in 2..5 : reMatches(s, i, g)
    IN  IF \E i \in 1..Len(s) : at(i)
        THEN LET i == CHOOSE i \in 1..Len(s) : at(i) /\ \A j \in 1..(i - 1) : ~at(j)
                 g == CHOOSE g \in 2..5 :
                         reMatches(s, i, g) /\ \A h \in (g + 1)..5 : ~reMatches(s, i, h)
             IN  [ok |-> TRUE, s |-> SubSeq(s, i, i + 3 * g + 1)]
        ELSE [ok |-> FALSE, s |-> ""]

\* The index of the line that ends the inner loop of a record whose header
\* is line pos: the first later line of length < 2 (the loop breaks on it),
\* Len(lines) + 1 when Scan returns false first.
innerEnd(lines, pos) ==
    IF \E j \in (pos + 1)..Len(lines) : Len(lines[j]) < 2
    THEN CHOOSE j \in (pos + 1)..Len(lines) :
            /\ Len(lines[j]) < 2
            /\ \A i \in (pos + 1)..(j - 1) : Len(lines[i]) >= 2
    ELSE Len(lines) + 1

RECURSIVE addressLines(_, _, _)
\* e.Address after the inner loop over lines from..to: a line that starts
\* with a tab is appended, trimmed; any other line is read and skipped.
addressLines(lines, from, to) ==
    IF from > to THEN <<>>
    ELSE (IF Ch(lines[from], 1) = "\t"
          THEN <<Trim(lines[from], {"\t", " ", "\r", "\n"})>>
          ELSE <<>>) \o addressLines(lines, from + 1, to)

\* An Entry whose country is its first address line.
newEntry_first(bt, arr, address) ==
    LET i == bt[1] * 65536 + bt[2] * 256 + bt[3]
    IN  [Manufacturer |-> arr[Len(arr)],
         Address      |-> address,
         Prefix       |-> bt,
         Country      |-> IF Len(address) > 0 THEN address[1] ELSE "",
         Local        |-> BitSet(i, local),
         Multicast    |-> BitSet(i, multicast)]

\* The Entry scanOUI builds for the header line arr (split on tabs) with
\* prefix bt and the address lines address.
newEntry(bt, arr, address) ==
    LET i == bt[1] * 65536 + bt[2] * 256 + bt[3]
    IN  [Manufacturer |-> arr[Len(arr)],
         Address      |-> address,
         Prefix       |-> bt,
         Country      |-> IF Len(address) > 0 THEN address[Len(address)] ELSE "",
         Local        |-> BitSet(i, local),
         Multicast    |-> BitSet(i, multicast)]

(***************************************************************************)
(* The inputs of the model                                                 *)
(***************************************************************************)
\* The number of goroutines that call the library.
NThreads == 2

\* The number of maps ever allocated: the one of Open and one per Update.
MaxMaps == 3

Threads == 1..NThreads

K1 == <<0, 0, 1>>

K2 == <<2, 0, 2>>

K3 == <<1, 0, 3>>

\* The readers handed to Open and Update: the bytes they deliver, and whether
\* they end them with a read error (fail) or with io.EOF.
\*   1: a Generated header, K1 with two address lines, K2
\*   2: a later Generated header, K1 from another manufacturer, K3
\*   3: no Generated header, K2 only
\*   4: a Generated header, K3, then a header whose address is not hexadecimal
\*   5: the bytes of reader 2 cut after the record of K1 by a read error
Readers ==
    << [data |-> "# registry\nGenerated: Sun, 25 Jan 2015 05:00:04 -0500\n\n"
                 \o "00-00-01   (hex)\t\tAlpha\n000001     (base 16)\t\tAlpha\n"
                 \o "\t\t\t\t1 Main St\n\t\t\t\tDENMARK\n\n"
                 \o "02-00-02   (hex)\t\tBeta\n\n",
        fail |-> FALSE],
       [data |-> "Generated: Mon, 2 Feb 2015 05:00:04 -0500\n"
                 \o "00-00-01   (hex)\t\tGamma\n\t\t\t\tSWEDEN\n\n"
                 \o "01-00-03   (hex)\t\tDelta\n",
        fail |-> FALSE],
       [data |-> "02-00-02   (hex)\t\tEpsilon\n\t\t\t\tNORWAY\n",
        fail |-> FALSE],
       [data |-> "Generated: Tue, 3 Mar 2015 05:00:04 -0500\n"
                 \o "01-00-03   (hex)\t\tZeta\n\n"
                 \o "ZZ-00-02   (hex)\t\tEta\n\n"
                 \o "00-00-01   (hex)\t\tTheta\n",
        fail |-> FALSE],
       [data |-> "Generated: Mon, 2 Feb 2015 05:00:04 -0500\n"
                 \o "00-00-01   (hex)\t\tGamma\n\t\t\t\tSWE",
        fail |-> TRUE] >>

\* The lines of each reader.
ReaderLines == [r \in DOMAIN Readers |-> ScanLines(Readers[r].data)]

\* The readers Open is called with, and those Update is called with.
OpenReaders == {1, 3}

UpdateReaders == {2, 3, 4, 5}

\* The keys LookUp and DeleteEntry are called with.
LookUpKeys == {K1, K2}

\* The readers and keys of the calls that goroutines make concurrently.
ConcReaders == {2, 3}

ConcKeys == {K1}

\* The texts Query is called with.
QueryTexts == {"00:00:01:AA:BB:CC", "020002", "0A-0B-0C", "00-00-1", "0G-00-01", "G0-00-01"}

\* ParseMac of the texts Query is called with.
ParsedMac == [mac \in QueryTexts |-> ParseMac(mac)]

\* The arguments UpdateEntry is called with: an entry made for its key, and
\* an Entry{Manufacturer: "Unlisted"} whose other fields are the zero values,
\* passed with the key K2.
EditArgs == { <<K1, [Manufacturer |-> "Edited", Address |-> <<"FINLAND">>, Prefix |-> K1,
                     Country |-> "FINLAND", Local |-> FALSE, Multicast |-> FALSE]>>,
              <<K2, [Manufacturer |-> "Unlisted", Address |-> <<>>, Prefix |-> <<0, 0, 0>>,
                     Country |-> "", Local |-> FALSE, Multicast |-> FALSE]>> }

\* The arguments of the UpdateEntry calls that goroutines make concurrently.
ConcEdits == {a \in EditArgs : a[1] \in ConcKeys}

\* The texts ParseMac is called with: up to MaxFields fields, joined by a
\* separator or by nothing.  The fields are pairs of hexadecimal digits of
\* either case, pairs with a character that is no hexadecimal digit in
\* either place, fields that are too short or empty, and one that holds the
\* other separator.
MaxFields == 4

MacFields == {"00", "a1", "FF", "0G", "G0", "1", "", "02:FF"}

MacSeparators == {"-", ":", ""}

RECURSIVE Join(_, _)
Join(fs, sep) ==
    IF Len(fs) = 0 THEN ""
    ELSE IF Len(fs) = 1 THEN fs[1]
    ELSE fs[1] \o sep \o Join(Tail(fs), sep)

MacTexts ==
    {Join(fs, sep) : fs \in UNION {[1..n -> MacFields] : n \in 1..MaxFields},
                     sep \in MacSeparators}

\* The registry streams scanOUI is called with on its own: a Generated
\* header, one record header and up to MaxAddress address lines.  Each part
\* is given as the text of the stream and as what it stands for.
MaxAddress == 2

\* The header's time: the text and the time it denotes.
ScanDates ==
    { [text |-> "Mon, 2 Feb 2015 05:00:04 -0500",
       time |-> [year |-> 2015, month |-> 2, day |-> 2, hour |-> 5, min |-> 0, sec |-> 4,
                 nsec |-> 0, zone |-> -18000]],
      [text |-> "Sun, 25 Jan 2015 23:59:04 +0100",
       time |-> [year |-> 2015, month |-> 1, day |-> 25, hour |-> 23, min |-> 59, sec |-> 4,
                 nsec |-> 0, zone |-> 3600]] }

\* The first byte of the prefix, with the flags its two low bits stand for,
\* and the bytes after it.
ScanFirstBytes ==
    { [text |-> "00", byte |-> 0,   local |-> FALSE, multicast |-> FALSE],
      [text |-> "01", byte |-> 1,   local |-> FALSE, multicast |-> TRUE],
      [text |-> "02", byte |-> 2,   local |-> TRUE,  multicast |-> FALSE],
      [text |-> "03", byte |-> 3,   local |-> TRUE,  multicast |-> TRUE],
      [text |-> "FE", byte |-> 254, local |-> TRUE,  multicast |-> FALSE] }

ScanSecondBytes == { [text |-> "00", byte |-> 0], [text |-> "FF", byte |-> 255] }

ScanThirdBytes == { [text |-> "00", byte |-> 0], [text |-> "03", byte |-> 3] }

ScanPrefixes ==
    { [text  |-> Join(<<b1.text, b2.text, b3.text>>, sep),
       key   |-> <<b1.byte, b2.byte, b3.byte>>,
       first |-> b1] :
      b1 \in ScanFirstBytes, b2 \in ScanSecondBytes, b3 \in ScanThirdBytes, sep \in {"-", ":"} }

\* What follows the prefix on the header line, and its last field.
ScanTails ==
    { [text |-> "   (hex)\t\tAcme", manufacturer |-> "Acme"],
      [text |-> "\tAcme\tInc.",     manufacturer |-> "Inc."],
      [text |-> "   (hex)\t",       manufacturer |-> ""] }

\* Address lines as they stand in the stream, and without their margins.
ScanAddress ==
    { [text |-> "\t\t\t\t1 Main St", line |-> "1 Main St"],
      [text |-> "\tDENMARK \r",      line |-> "DENMARK"],
      [text |-> "\t\t",              line |-> ""] }

ScanCases ==
    { [date |-> d, prefix |-> p, tail |-> x, address |-> a] :
      d \in ScanDates, p \in ScanPrefixes, x \in ScanTails,
      a \in UNION {[1..n -> ScanAddress] : n \in 0..MaxAddress} }

\* The bytes of the stream of a case.
StreamOf(c) ==
    Join(<<"Generated: " \o c.date.text, c.prefix.text \o c.tail.text>>
            \o [i \in 1..Len(c.address) |-> c.address[i].text],
         "\n") \o "\n"

\* The registry streams Open is called with on its own: up to MaxLines
\* lines, each one of RegistryLines.  A line is given as its text and as what
\* it stands for: a Generated header and its time (<<>> when the text is no
\* time), a record header with its key (<<>> when the address is not
\* hexadecimal) and manufacturer, an address line and its content, or a
\* blank line.
MaxLines == 4

RegistryLines ==
    { [kind |-> "generated", text |-> "Generated: Mon, 2 Feb 2015 05:00:04 -0500", key |-> <<>>,
       name |-> "",
       time |-> <<[year |-> 2015, month |-> 2, day |-> 2, hour |-> 5, min |-> 0, sec |-> 4,
                   nsec |-> 0, zone |-> -18000]>>],
      [kind |-> "generated", text |-> "Generated: Sun, 25 Jan 2015 23:59:04 +0100", key |-> <<>>,
       name |-> "",
       time |-> <<[year |-> 2015, month |-> 1, day |-> 25, hour |-> 23, min |-> 59, sec |-> 4,
                   nsec |-> 0, zone |-> 3600]>>],
      [kind |-> "generated", text |-> "Generated: 2015-02-02 05:00:04", key |-> <<>>,
       name |-> "", time |-> <<>>],
      [kind |-> "header", text |-> "00-00-01   (hex)\t\tAlpha", key |-> <<K1>>,
       name |-> "Alpha", time |-> <<>>],
      [kind |-> "header", text |-> "00:00:01\tOmega", key |-> <<K1>>,
       name |-> "Omega", time |-> <<>>],
      [kind |-> "header", text |-> "02-00-02   (hex)\t\tBeta", key |-> <<K2>>,
       name |-> "Beta", time |-> <<>>],
      [kind |-> "header", text |-> "ZZ-00-02   (hex)\t\tEta", key |-> <<>>,
       name |-> "Eta", time |-> <<>>],
      [kind |-> "address", text |-> "\t\t\t\t1 Main St", key |-> <<>>,
       name |-> "1 Main St", time |-> <<>>],
      [kind |-> "address", text |-> "\t\t\t\tDENMARK", key |-> <<>>,
       name |-> "DENMARK", time |-> <<>>],
      [kind |-> "blank", text |-> "", key |-> <<>>, name |-> "", time |-> <<>>] }

RegistryStreams == UNION {[1..n -> RegistryLines] : n \in 1..MaxLines}

(***************************************************************************)
(* scanOUI: the loop                                                       *)
(***************************************************************************)
\* The state of a scan before it has read anything.
scanStart == [pos |-> 1, generated |-> <<>>, db |-> EmptyDb, done |-> FALSE, err |-> NilErr]

\* The pass skips the line.
scanContinue(st) == [st EXCEPT !.pos = st.pos + 1]

\* A "Generated: " line: t is what time.Parse made of it; an error is
\* ignored and leaves the time found before.
scanGenerated(st, t) ==
    [st EXCEPT !.pos = st.pos + 1,
               !.generated = IF t # <<>> THEN t ELSE st.generated]

\* The record of the header line at st.pos, fields arr, prefix hw: the inner
\* loop reads up to line end, then the entry is stored.
scanRecord(lines, st, arr, hw, end) ==
    [st EXCEPT !.pos = end + 1,
               !.db  = MapSet(st.db, hw,
                              newEntry(hw, arr, addressLines(lines, st.pos + 1, end - 1)))]

\* A scan that empties the database when ParseMac refuses a line.
scanParsed_reset(lines, st, arr, bt) ==
    IF bt.err # NilErr
    THEN [st EXCEPT !.done = TRUE, !.err = bt.err, !.db = EmptyDb]
    ELSE scanRecord(lines, st, arr, bt.hw[1], innerEnd(lines, st.pos))

\* A line where the pattern matched and ParseMac returned bt.
scanParsed(lines, st, arr, bt) ==
    IF bt.err # NilErr
    THEN [st EXCEPT !.done = TRUE, !.err = bt.err]
    ELSE scanRecord(lines, st, arr, bt.hw[1], innerEnd(lines, st.pos))

\* What the loop body computes from a line of the fields arr alone, t0 being
\* the first field without outer spaces: whether it is a "Generated: " line
\* and then what time.Parse makes of it; else the pattern's first match m in
\* the first field, and what ParseMac returns for it.
scanText(arr, t0) ==
    [arr       |-> arr,
     generated |-> HasPrefix(t0, "Generated: "),
     t         |-> IF HasPrefix(t0, "Generated: ")
                   THEN timeParse(SubSeq(t0, 12, Len(t0))) ELSE <<>>,
     m         |-> reFirst(arr[1]),
     bt        |-> IF reFirst(arr[1]).ok THEN ParseMac(reFirst(arr[1]).s)
                   ELSE [hw |-> <<>>, err |-> NilErr]]

\* scanText of every line of the streams of the model, computed once.
scanTexts ==
    [text \in (UNION {{ReaderLines[r][i] : i \in DOMAIN ReaderLines[r]} :
                         r \in DOMAIN ReaderLines}
                 \cup {l.text : l \in RegistryLines}
                 \cup {"Generated: " \o d.text : d \in ScanDates}
                 \cup {p.text \o x.text : p \in ScanPrefixes, x \in ScanTails}
                 \cup {dropCR(a.text) : a \in ScanAddress}) \ {""}
        |-> scanText(Split(text, "\t"), TrimSpace(Split(text, "\t")[1]))]

\* A line that is no "Generated: " line: a.m is the pattern's first match.
scanMatch(lines, st, a) ==
    IF ~a.m.ok THEN scanContinue(st) ELSE scanParsed(lines, st, a.arr, a.bt)

\* A line of which a is what scanText computes.
scanFields(lines, st, a) ==
    IF a.generated THEN scanGenerated(st, a.t) ELSE scanMatch(lines, st, a)

\* The line text, delivered by Scan.
scanLine(lines, st, text) ==
    IF Len(text) = 0 \/ Ch(text, 1) = "#"
    THEN scanContinue(st)
    ELSE scanFields(lines, st,
                    IF text \in DOMAIN scanTexts THEN scanTexts[text]
                    ELSE scanText(Split(text, "\t"), TrimSpace(Split(text, "\t")[1])))

\* One pass of scanOUI's outer loop, from the state st: pos is the index of
\* the next line Scan delivers, generated the time found so far (<<>> is
\* nil), db the map being filled; done says that scanOUI has returned, with
\* err.
scanIter(lines, st) ==
    IF st.pos > Len(lines) THEN [st EXCEPT !.done = TRUE]
    ELSE scanLine(lines, st, lines[st.pos])

RECURSIVE scanRun(_, _)
scanRun(lines, st) == IF st.done THEN st ELSE scanRun(lines, scanIter(lines, st))

\* scanOUI(in, db) on an empty db, for a reader that delivers the bytes data:
\* the returned time and error, and the content of db afterwards.  The
\* reader's own error is never asked for (Scanner.Err is not called).
scanOUI(data) == scanRun(ScanLines(data), scanStart)

\* The result of a whole scan of each reader.
Scanned == [r \in DOMAIN Readers |-> scanOUI(Readers[r].data)]

(***************************************************************************)
(* The state                                                               *)
(***************************************************************************)
VARIABLES
    impl,     \* the revision of the store: "oui.go" or "part_001"
    heap,     \* the maps allocated so far; a map is named by its index
    ouiDb,    \* updateableDB.ouiDb: the name of the active map
    dbTime,   \* updateableDB.dbTime
    mu,       \* updateableDB.mu: w, a writer holds it; r, the number of readers
    sdb,      \* staticDB.ouiDb: the content of the static database
    sTime,    \* staticDB.dbTime
    thr,      \* the goroutines: the call each is in, its arguments and locals
    order,    \* history: the names of the maps made active, oldest first
    origin,   \* history: for each map of the heap, the reader it was parsed from
    app       \* the App Engine service: updating, whether UpdateAt has passed,
              \* and the position of each request's handler

vars == <<impl, heap, ouiDb, dbTime, mu, sdb, sTime, thr, order, origin, app>>

\* The requests the service handles at a time: net/http runs the handler of
\* each in a goroutine of its own.
Requests == Threads

\* The service once start has loaded the database and UpdateAt has passed:
\* updating is false and no request is being handled.
appLoaded == [updating |-> FALSE, expired |-> TRUE, pc |-> [r \in Requests |-> "idle"]]

\* A goroutine that is in no call.
\* from and gen are history: the number of maps that had been made active
\* when a LookUp was called, and the name of the map it read.  arr names the
\* array behind the Address of the Entry a lookup has copied: 0 is the array
\* of the record the map still holds under the key, another number an array
\* that no map holds any more.
Idle == [pc |-> "idle", op |-> "", hw |-> <<>>, e |-> <<>>, text |-> "", rd |-> 0,
         pos |-> 0, generated |-> <<>>, dst |-> 0,
         val |-> <<>>, err |-> NilErr, from |-> 0, gen |-> 0, arr |-> 0]

\* A mutex that makes no caller wait: what the store would be without its
\* lock.
Unlocked(m) == TRUE

\* sync.RWMutex: RLock returns when no writer holds the mutex, Lock when
\* nobody holds it.
\* A read lock that one reader holds at a time.
CanRLock_alone(m) == ~m.w /\ m.r = 0

CanRLock(m) == ~m.w

CanLock(m) == ~m.w /\ m.r = 0

\* generatedAt(t) applied to the time d: a nil t leaves d as it is.
generatedAt(d, t) == IF t = <<>> THEN d ELSE t[1]

\* The call of goroutine t is at the statement pc.
At(t, pc) == thr[t].pc = pc

\* The handler of request r is at the statement pc.
Handling(r, pc) == app.pc[r] = pc

\* Goroutines are interchangeable when idle: the next call is made by the
\* first idle one.  A goroutine inside the service's handler is not
\* interchangeable: it makes the call its handler has arrived at.
MayCall(t) ==
    /\ At(t, "idle")
    /\ Handling(t, "idle")
       => \A u \in 1..(t - 1) : ~(At(u, "idle") /\ Handling(u, "idle"))

(***************************************************************************)
(* Open, OpenStatic                                                        *)
(***************************************************************************)
\* Open(in) and OpenStatic(in) on the same reader: the database is built
\* around the map scanOUI fills and takes the time scanOUI found.
Init ==
    /\ impl \in {"oui.go", "part_001"}
    /\ \E r \in OpenReaders :
          /\ heap = <<Scanned[r].db>>
          /\ origin = <<r>>
          /\ dbTime = generatedAt(ZeroTime, Scanned[r].generated)
          /\ sdb = Scanned[r].db
          /\ sTime = generatedAt(ZeroTime, Scanned[r].generated)
    /\ ouiDb = 1
    /\ mu = [w |-> FALSE, r |-> 0]
    /\ thr = [t \in Threads |-> Idle]
    /\ order = <<1>>
    /\ app = appLoaded

\* Open(in, updateable) for a reader from which Scan delivers the lines ls:
\* the map is made, the database is made around it, scanOUI fills the map,
\* the time it returns is passed to generatedAt, and the database is
\* returned together with scanOUI's error.  (In part_001, Open and
\* OpenStatic do the same.)
Open(t, ls) ==
    /\ MayCall(t)
    /\ LET st == scanRun([i \in 1..Len(ls) |-> ls[i].text], scanStart)
       IN  /\ heap' = <<st.db>>
           /\ dbTime' = generatedAt(ZeroTime, st.generated)
           /\ sdb' = st.db
           /\ sTime' = generatedAt(ZeroTime, st.generated)
           /\ thr' = [thr EXCEPT ![t] =
                         [Idle EXCEPT !.pc = "ret", !.op = "Open", !.e = ls,
                                      !.pos = st.pos,
                                      !.generated = st.generated, !.err = st.err]]
    /\ ouiDb' = 1
    /\ order' = <<1>>
    /\ origin' = <<0>>
    /\ UNCHANGED <<app, impl, mu>>

\* The functions that open their source themselves, and the error of each
\* when the source cannot be opened: os.Open's for a file, http.Get's for a
\* URL.
OpenErr == [OpenFile |-> [kind |-> "PathError"], OpenHttp |-> [kind |-> "url.Error"]]

\* OpenFile(name, updateable) and OpenHttp(url, updateable), fn being the
\* one called: when the source cannot be opened (found is false) the error
\* of os.Open or http.Get is returned with a nil database, written 0; else
\* the lines ls are scanned as in Open.  (In part_001, OpenFile, OpenHttp,
\* OpenStaticFile and OpenStaticHttp do the same.)
OpenFile(t, fn, found, ls) ==
    /\ MayCall(t)
    /\ IF ~found
       THEN /\ heap' = <<>>
            /\ ouiDb' = 0
            /\ order' = <<>>
            /\ origin' = <<>>
            /\ dbTime' = ZeroTime
            /\ sdb' = EmptyDb
            /\ sTime' = ZeroTime
            /\ thr' = [thr EXCEPT ![t] =
                          [Idle EXCEPT !.pc = "ret", !.op = fn, !.err = OpenErr[fn]]]
       ELSE LET st == scanRun([i \in 1..Len(ls) |-> ls[i].text], scanStart)
            IN  /\ heap' = <<st.db>>
                /\ ouiDb' = 1
                /\ order' = <<1>>
                /\ origin' = <<0>>
                /\ dbTime' = generatedAt(ZeroTime, st.generated)
                /\ sdb' = st.db
                /\ sTime' = generatedAt(ZeroTime, st.generated)
                /\ thr' = [thr EXCEPT ![t] =
                              [Idle EXCEPT !.pc = "ret", !.op = fn, !.e = ls,
                                           !.pos = st.pos,
                                           !.generated = st.generated, !.err = st.err]]
    /\ UNCHANGED <<app, impl, mu>>

(***************************************************************************)
(* staticDB                                                                *)
(***************************************************************************)
\* What LookUp returns for the result <<e>> or <<>> of the map access.
LookUpResult(val) ==
    IF val = <<>> THEN [val |-> <<>>, err |-> ErrNotFound]
    ELSE [val |-> val, err |-> NilErr]

\* staticDB.LookUp(hw)
staticLookUp(t, hw) ==
    /\ MayCall(t)
    /\ thr' = [thr EXCEPT ![t] =
                  [Idle EXCEPT !.pc = "ret", !.op = "staticDB.LookUp", !.hw = hw,
                               !.val = LookUpResult(MapGet(sdb, hw)).val,
                               !.err = LookUpResult(MapGet(sdb, hw)).err]]
    /\ UNCHANGED <<app, impl, heap, ouiDb, dbTime, mu, sdb, sTime, order, origin>>

\* staticDB.Query(mac): ParseMac, then the result of db.LookUp(*hw) unless
\* it failed; hw is the key LookUp was called with.
staticQuery(t, mac) ==
    /\ MayCall(t)
    /\ LET p == ParsedMac[mac]
       IN  thr' = [thr EXCEPT ![t] =
                      IF p.err # NilErr
                      THEN [Idle EXCEPT !.pc = "ret", !.op = "staticDB.Query", !.text = mac,
                                        !.err = p.err]
                      ELSE [Idle EXCEPT !.pc = "ret", !.op = "staticDB.Query", !.text = mac,
                                        !.hw = p.hw[1],
                                        !.val = LookUpResult(MapGet(sdb, p.hw[1])).val,
                                        !.err = LookUpResult(MapGet(sdb, p.hw[1])).err]]
    /\ UNCHANGED <<app, impl, heap, ouiDb, dbTime, mu, sdb, sTime, order, origin>>

\* staticDB.Generated()
staticGenerated(t) ==
    /\ MayCall(t)
    /\ thr' = [thr EXCEPT ![t] =
                  [Idle EXCEPT !.pc = "ret", !.op = "staticDB.Generated", !.val = <<sTime>>]]
    /\ UNCHANGED <<app, impl, heap, ouiDb, dbTime, mu, sdb, sTime, order, origin>>

(***************************************************************************)
(* updateableDB: Query, LookUp                                             *)
(***************************************************************************)
\* updateableDB.LookUp(hw) is called.
LookUp(t, hw) ==
    /\ MayCall(t)
    /\ thr' = [thr EXCEPT ![t] = [Idle EXCEPT !.pc = "LookUp_RLock", !.op = "LookUp",
                                              !.hw = hw, !.from = Len(order)]]
    /\ UNCHANGED <<app, impl, heap, ouiDb, dbTime, mu, sdb, sTime, order, origin>>

\* updateableDB.Query(mac): ParseMac, then LookUp unless it failed.
Query(t, mac) ==
    /\ MayCall(t)
    /\ LET p == ParsedMac[mac]
       IN  thr' = [thr EXCEPT ![t] =
                      IF p.err # NilErr
                      THEN [Idle EXCEPT !.pc = "ret", !.op = "Query", !.text = mac,
                                        !.err = p.err]
                      ELSE [Idle EXCEPT !.pc = "LookUp_RLock", !.op = "Query",
                                        !.text = mac, !.hw = p.hw[1],
                                        !.from = Len(order)]]
    /\ UNCHANGED <<app, impl, heap, ouiDb, dbTime, mu, sdb, sTime, order, origin>>

\* o.mu.RLock()
LookUp_RLock(t) ==
    /\ At(t, "LookUp_RLock")
    /\ CanRLock(mu)
    /\ mu' = [mu EXCEPT !.r = @ + 1]
    /\ thr' = [thr EXCEPT ![t].pc = "LookUp_read"]
    /\ UNCHANGED <<app, impl, heap, ouiDb, dbTime, sdb, sTime, order, origin>>

\* e, ok := o.ouiDb[hw]
LookUp_read(t) ==
    /\ At(t, "LookUp_read")
    /\ thr' = [thr EXCEPT ![t].pc = "LookUp_RUnlock",
                          ![t].val = MapGet(heap[ouiDb], thr[t].hw),
                          ![t].gen = ouiDb]
    /\ UNCHANGED <<app, impl, heap, ouiDb, dbTime, mu, sdb, sTime, order, origin>>

\* o.mu.RUnlock(), and the return of nil, ErrNotFound or of &e, nil
LookUp_RUnlock(t) ==
    /\ At(t, "LookUp_RUnlock")
    /\ mu' = [mu EXCEPT !.r = @ - 1]
    /\ thr' = [thr EXCEPT ![t].pc = "ret",
                          ![t].val = LookUpResult(thr[t].val).val,
                          ![t].err = LookUpResult(thr[t].val).err]
    /\ UNCHANGED <<app, impl, heap, ouiDb, dbTime, sdb, sTime, order, origin>>

\* Goroutine u has a copy of an Entry of the store: e of LookUp once it is
\* read, and *Entry once LookUp or Query has returned it.
HoldsEntry(u) ==
    /\ thr[u].val # <<>>
    /\ \/ thr[u].op \in {"LookUp", "Query"} /\ thr[u].pc \in {"LookUp_RUnlock", "ret"}
       \/ thr[u].op \in {"staticDB.LookUp", "staticDB.Query"} /\ thr[u].pc = "ret"

\* The Address of u's copy points to the array of the record that the map
\* gen of the updateable store holds under hw.
SharesRecord(u, gen, hw) ==
    /\ HoldsEntry(u)
    /\ thr[u].op \in {"LookUp", "Query"}
    /\ thr[u].gen = gen /\ thr[u].hw = hw /\ thr[u].arr = 0

\* The Address of u's copy and of t's point to one array: both were copied
\* from the same value of the same record.
SameArray(u, t) ==
    /\ HoldsEntry(u) /\ HoldsEntry(t)
    /\ (thr[u].op \in {"LookUp", "Query"}) = (thr[t].op \in {"LookUp", "Query"})
    /\ thr[u].gen = thr[t].gen /\ thr[u].hw = thr[t].hw /\ thr[u].arr = thr[t].arr

\* A name for an array that leaves the map: the least one no copy has.
FreeArr == CHOOSE k \in 1..NThreads :
               /\ \A u \in Threads : thr[u].arr # k
               /\ \A j \in 1..(k - 1) : \E u \in Threads : thr[u].arr = j

\* The goroutines after t has put another value, or none, under hw in the
\* active map and moved to pc: the copies made of the record that was there
\* keep its array, which the map has no longer.
Replaced(t, hw, pc) ==
    [u \in Threads |->
        IF u = t THEN [thr[t] EXCEPT !.pc = pc]
        ELSE IF SharesRecord(u, ouiDb, hw) THEN [thr[u] EXCEPT !.arr = FreeArr]
        ELSE thr[u]]

(***************************************************************************)
(* updateableDB: Generated                                                 *)
(***************************************************************************)
\* The goroutines about to write dbTime inside updateDb.
TimeWriters == {u \in Threads : At(u, "updateDb_generatedAt") /\ thr[u].generated # <<>>}

\* The values a read of the three words of a time.Time can give while the
\* value d is being replaced by n without synchronisation: each word is the
\* old or the new one (nsec stands for wall, the date and time of day for
\* ext, zone for loc).
Torn(d, n) ==
    {[year |-> a.year, month |-> a.month, day |-> a.day, hour |-> a.hour,
      min |-> a.min, sec |-> a.sec, nsec |-> b.nsec, zone |-> c.zone] :
        a \in {d, n}, b \in {d, n}, c \in {d, n}}

\* What a read of dbTime can give: in part_001 the read is made under the
\* lock; in oui.go it is made without, and races with the write of a
\* goroutine that is inside updateDb.
ReadDbTime ==
    IF impl = "oui.go"
    THEN {dbTime} \cup UNION {Torn(dbTime, thr[u].generated[1]) : u \in TimeWriters}
    ELSE {dbTime}

\* updateableDB.Generated() is called.
Generated(t) ==
    /\ MayCall(t)
    /\ thr' = [thr EXCEPT ![t] =
                  [Idle EXCEPT !.op = "Generated",
                               !.pc = IF impl = "part_001" THEN "Generated_RLock"
                                      ELSE "Generated_read"]]
    /\ UNCHANGED <<app, impl, heap, ouiDb, dbTime, mu, sdb, sTime, order, origin>>

\* part_001: o.mu.RLock()
Generated_RLock(t) ==
    /\ At(t, "Generated_RLock")
    /\ CanRLock(mu)
    /\ mu' = [mu EXCEPT !.r = @ + 1]
    /\ thr' = [thr EXCEPT ![t].pc = "Generated_read"]
    /\ UNCHANGED <<app, impl, heap, ouiDb, dbTime, sdb, sTime, order, origin>>

\* The read of dbTime: oui.go returns it; part_001 has the deferred RUnlock
\* to run.
Generated_read(t) ==
    /\ At(t, "Generated_read")
    /\ \E v \in ReadDbTime :
          thr' = [thr EXCEPT ![t].val = <<v>>,
                             ![t].pc = IF impl = "part_001" THEN "Generated_RUnlock"
                                       ELSE "ret"]
    /\ UNCHANGED <<app, impl, heap, ouiDb, dbTime, mu, sdb, sTime, order, origin>>

\* part_001: defer o.mu.RUnlock()
Generated_RUnlock(t) ==
    /\ At(t, "Generated_RUnlock")
    /\ mu' = [mu EXCEPT !.r = @ - 1]
    /\ thr' = [thr EXCEPT ![t].pc = "ret"]
    /\ UNCHANGED <<app, impl, heap, ouiDb, dbTime, sdb, sTime, order, origin>>

(***************************************************************************)
(* updateableDB: UpdateEntry, DeleteEntry                                  *)
(***************************************************************************)
\* UpdateEntry(hw, e) is called.
UpdateEntry(t, hw, e) ==
    /\ MayCall(t)
    /\ thr' = [thr EXCEPT ![t] = [Idle EXCEPT !.pc = "UpdateEntry_Lock",
                                              !.op = "UpdateEntry", !.hw = hw, !.e = <<e>>]]
    /\ UNCHANGED <<app, impl, heap, ouiDb, dbTime, mu, sdb, sTime, order, origin>>

\* o.mu.Lock()
UpdateEntry_Lock(t) ==
    /\ At(t, "UpdateEntry_Lock")
    /\ CanLock(mu)
    /\ mu' = [mu EXCEPT !.w = TRUE]
    /\ thr' = [thr EXCEPT ![t].pc = "UpdateEntry_set"]
    /\ UNCHANGED <<app, impl, heap, ouiDb, dbTime, sdb, sTime, order, origin>>

\* o.ouiDb.set(hw, e)
UpdateEntry_set(t) ==
    /\ At(t, "UpdateEntry_set")
    /\ heap' = [heap EXCEPT ![ouiDb] = MapSet(@, thr[t].hw, thr[t].e[1])]
    /\ thr' = Replaced(t, thr[t].hw, "UpdateEntry_Unlock")
    /\ UNCHANGED <<app, impl, ouiDb, dbTime, mu, sdb, sTime, order, origin>>

\* o.mu.Unlock()
UpdateEntry_Unlock(t) ==
    /\ At(t, "UpdateEntry_Unlock")
    /\ mu' = [mu EXCEPT !.w = FALSE]
    /\ thr' = [thr EXCEPT ![t].pc = "ret"]
    /\ UNCHANGED <<app, impl, heap, ouiDb, dbTime, sdb, sTime, order, origin>>

\* DeleteEntry(hw) is called.
DeleteEntry(t, hw) ==
    /\ MayCall(t)
    /\ thr' = [thr EXCEPT ![t] = [Idle EXCEPT !.pc = "DeleteEntry_Lock",
                                              !.op = "DeleteEntry", !.hw = hw]]
    /\ UNCHANGED <<app, impl, heap, ouiDb, dbTime, mu, sdb, sTime, order, origin>>

\* o.mu.Lock()
DeleteEntry_Lock(t) ==
    /\ At(t, "DeleteEntry_Lock")
    /\ CanLock(mu)
    /\ mu' = [mu EXCEPT !.w = TRUE]
    /\ thr' = [thr EXCEPT ![t].pc = "DeleteEntry_del"]
    /\ UNCHANGED <<app, impl, heap, ouiDb, dbTime, sdb, sTime, order, origin>>

\* o.ouiDb.del(hw)
DeleteEntry_del(t) ==
    /\ At(t, "DeleteEntry_del")
    /\ heap' = [heap EXCEPT ![ouiDb] = MapDel(@, thr[t].hw)]
    /\ thr' = Replaced(t, thr[t].hw, "DeleteEntry_Unlock")
    /\ UNCHANGED <<app, impl, ouiDb, dbTime, mu, sdb, sTime, order, origin>>

\* o.mu.Unlock()
DeleteEntry_Unlock(t) ==
    /\ At(t, "DeleteEntry_Unlock")
    /\ mu' = [mu EXCEPT !.w = FALSE]
    /\ thr' = [thr EXCEPT ![t].pc = "ret"]
    /\ UNCHANGED <<app, impl, heap, ouiDb, dbTime, sdb, sTime, order, origin>>

(***************************************************************************)
(* Update and updateableDB.updateDb                                        *)
(***************************************************************************)
\* An Update that would parse into the map being served instead of a new one.
ActiveMap == ouiDb

\* An Update that would keep two maps and parse into the spare one, the map
\* superseded last, as it was left (the first Update has none and allocates).
SpareMap == IF Len(order) > 1 THEN order[Len(order) - 1] ELSE Len(heap) + 1

\* dst := make(ouiDb): the name of the map Update parses into, a new one.
Update_dst == Len(heap) + 1

\* Update(db, r) is called with reader r: dst is allocated, scanOUI begins.
Update(t, r) ==
    /\ MayCall(t)
    /\ Len(heap) < MaxMaps
    /\ heap' = IF Update_dst > Len(heap) THEN Append(heap, EmptyDb) ELSE heap
    /\ origin' = IF Update_dst > Len(heap) THEN Append(origin, r) ELSE origin
    /\ thr' = [thr EXCEPT ![t] = [Idle EXCEPT !.pc = "scanOUI", !.op = "Update", !.rd = r,
                                              !.pos = 1, !.dst = Update_dst]]
    /\ UNCHANGED <<app, impl, ouiDb, dbTime, mu, sdb, sTime, order>>

\* A type assertion that every database passes.
AnyDb(db) == TRUE

\* udb, ok := db.(Updater): ok for the databases that have UpdateEntry,
\* DeleteEntry and updateDb.
Updater(db) == db = "updateableDB"

\* The functions that replace the content of a database.
UpdateFns == {"Update", "UpdateFile", "UpdateHttp"}

\* The name of the call fn(db, ...) in a goroutine's op.
UpdateOp(fn, db) == fn \o "(" \o db \o ")"

\* fn(db, ...) called with a database db.  r is the reader passed to Update,
\* or the one the file or the URL gives; r = 0 stands for a file or a URL
\* that cannot be opened.  In oui.go the type assertion comes first; when db
\* fails it, fn returns ErrNotUpdateable with nothing opened and nothing
\* read.  In part_001 the parameter has the type DynamicDB and takes no
\* other database.  Then UpdateFile and UpdateHttp open their source and
\* return the error of os.Open or http.Get when that fails, the database
\* being left as it is.  Otherwise dst is allocated and scanOUI begins.
UpdateOn(t, fn, db, r) ==
    /\ MayCall(t)
    /\ impl = "part_001" => Updater(db)
    /\ fn = "Update" => r # 0
    /\ IF ~Updater(db)
       THEN /\ thr' = [thr EXCEPT ![t] = [Idle EXCEPT !.pc = "ret", !.op = UpdateOp(fn, db),
                                                      !.err = ErrNotUpdateable]]
            /\ UNCHANGED <<heap, origin>>
       ELSE IF r = 0
       THEN /\ thr' = [thr EXCEPT ![t] =
                          [Idle EXCEPT !.pc = "ret", !.op = UpdateOp(fn, db),
                                       !.err = IF fn = "UpdateFile" THEN OpenErr.OpenFile
                                               ELSE OpenErr.OpenHttp]]
            /\ UNCHANGED <<heap, origin>>
       ELSE /\ Len(heap) < MaxMaps
            /\ heap' = Append(heap, EmptyDb)
            /\ origin' = Append(origin, r)
            /\ thr' = [thr EXCEPT ![t] = [Idle EXCEPT !.pc = "scanOUI",
                                                      !.op = UpdateOp(fn, db),
                                                      !.rd = r, !.pos = 1,
                                                      !.dst = Len(heap) + 1]]
    /\ UNCHANGED <<app, impl, ouiDb, dbTime, mu, sdb, sTime, order>>

\* An Update that would install its map whatever scanOUI returned, and one
\* that would return without installing it.
Update_proceed(err) == "updateDb_Lock"

Update_abandon(err) == "ret"

\* Where Update goes when scanOUI has returned err: it returns err, or calls
\* updateDb.
Update_next(err) == IF err # NilErr THEN "ret" ELSE "updateDb_Lock"

\* One pass of scanOUI's outer loop inside Update (it reads from the stream
\* and holds no lock); after the last one, Update's test of err.
Update_scanOUI(t) ==
    /\ At(t, "scanOUI")
    /\ LET st == scanIter(ReaderLines[thr[t].rd],
                          [scanStart EXCEPT !.pos = thr[t].pos,
                                            !.generated = thr[t].generated,
                                            !.db = heap[thr[t].dst]])
       IN  /\ heap' = [heap EXCEPT ![thr[t].dst] = st.db]
           /\ thr' = [thr EXCEPT ![t].pos = st.pos,
                                 ![t].generated = st.generated,
                                 ![t].pc = IF st.done THEN Update_next(st.err) ELSE "scanOUI",
                                 ![t].err = st.err]
    /\ UNCHANGED <<app, impl, ouiDb, dbTime, mu, sdb, sTime, order, origin>>

\* updateDb: o.mu.Lock()
updateDb_Lock(t) ==
    /\ At(t, "updateDb_Lock")
    /\ CanLock(mu)
    /\ mu' = [mu EXCEPT !.w = TRUE]
    /\ thr' = [thr EXCEPT ![t].pc = "updateDb_swap"]
    /\ UNCHANGED <<app, impl, heap, ouiDb, dbTime, sdb, sTime, order, origin>>

\* A replacement that also empties the map it supersedes.
updateDb_swap_clear(t) ==
    /\ At(t, "updateDb_swap")
    /\ ouiDb' = thr[t].dst
    /\ order' = Append(order, thr[t].dst)
    /\ heap' = [heap EXCEPT ![ouiDb] = EmptyDb]
    /\ thr' = [thr EXCEPT ![t].pc = "updateDb_generatedAt"]
    /\ UNCHANGED <<app, impl, dbTime, mu, sdb, sTime, origin>>

\* updateDb: o.ouiDb = db
updateDb_swap(t) ==
    /\ At(t, "updateDb_swap")
    /\ ouiDb' = thr[t].dst
    /\ order' = Append(order, thr[t].dst)
    /\ thr' = [thr EXCEPT ![t].pc = "updateDb_generatedAt"]
    /\ UNCHANGED <<app, impl, heap, dbTime, mu, sdb, sTime, origin>>

\* updateDb: o.generatedAt(t).  A nil t returns at once.  In oui.go the time
\* is assigned.  In part_001 generatedAt first calls o.mu.Lock(), and then
\* assigns and unlocks; the caller holds the mutex, so that Lock never
\* returns.
updateDb_generatedAt(t) ==
    /\ At(t, "updateDb_generatedAt")
    /\ IF thr[t].generated = <<>> THEN UNCHANGED <<dbTime, mu>>
       ELSE IF impl = "oui.go"
       THEN dbTime' = generatedAt(dbTime, thr[t].generated) /\ UNCHANGED mu
       ELSE /\ CanLock(mu)
            /\ dbTime' = generatedAt(dbTime, thr[t].generated)
            /\ mu' = [mu EXCEPT !.w = FALSE]
    /\ thr' = [thr EXCEPT ![t].pc = "updateDb_Unlock"]
    /\ UNCHANGED <<app, impl, heap, ouiDb, sdb, sTime, order, origin>>

\* updateDb: o.mu.Unlock(); Update returns nil.
updateDb_Unlock(t) ==
    /\ At(t, "updateDb_Unlock")
    /\ mu' = [mu EXCEPT !.w = FALSE]
    /\ thr' = [thr EXCEPT ![t].pc = "ret"]
    /\ UNCHANGED <<app, impl, heap, ouiDb, dbTime, sdb, sTime, order, origin>>

\* The call of goroutine t returns to its caller.
Return(t) ==
    /\ At(t, "ret")
    /\ thr' = [thr EXCEPT ![t] = Idle]
    /\ UNCHANGED <<app, impl, heap, ouiDb, dbTime, mu, sdb, sTime, order, origin>>

(***************************************************************************)
(* ParseMac called on its own                                              *)
(***************************************************************************)
\* ParseMac(mac) is called and returns.
CallParseMac(t, mac) ==
    /\ MayCall(t)
    /\ thr' = [thr EXCEPT ![t] =
                  [Idle EXCEPT !.pc = "ret", !.op = "ParseMac", !.text = mac,
                               !.hw = ParseMac(mac).hw, !.err = ParseMac(mac).err]]
    /\ UNCHANGED <<app, impl, heap, ouiDb, dbTime, mu, sdb, sTime, order, origin>>

(***************************************************************************)
(* scanOUI called on its own                                               *)
(***************************************************************************)
\* db := make(ouiDb); t, err := scanOUI(in, db) for the stream of case c:
\* val is db after the call, generated is t.
CallScanOUI(t, c) ==
    /\ MayCall(t)
    /\ LET st == scanOUI(StreamOf(c))
       IN  thr' = [thr EXCEPT ![t] =
                      [Idle EXCEPT !.pc = "ret", !.op = "scanOUI", !.e = c,
                                   !.text = StreamOf(c), !.pos = st.pos, !.val = st.db,
                                   !.generated = st.generated, !.err = st.err]]
    /\ UNCHANGED <<app, impl, heap, ouiDb, dbTime, mu, sdb, sTime, order, origin>>

\* What the caller of LookUp does with the *Entry it was given: an assignment
\* to the field Manufacturer, or to an element of the slice Address.
EntryWrites ==
    {[field |-> "Manufacturer", i |-> 0, v |-> "Changed"],
     [field |-> "Address", i |-> 1, v |-> "Changed"]}

\* The caller of a LookUp or a Query (which returns what LookUp returns) that
\* has returned an entry executes
\* e.Manufacturer = v or e.Address[i] = v.  LookUp returns &e, e being a copy
\* of the map's Entry made when the map was read: its string and array
\* fields are the caller's own, and its Address is a slice header that
\* points to the array the map's Entry had then.  An assignment to an
\* element is one to that array: every copy that points to it sees it, and
\* so does the map read from (sdb for the static store) as long as it holds
\* the record the copy was made of; once UpdateEntry or DeleteEntry has put
\* another value under the key, the map is out of the assignment's reach.
EntryWrite(t, w) ==
    /\ At(t, "ret")
    /\ HoldsEntry(t)
    /\ IF w.field = "Manufacturer"
       THEN /\ thr' = [thr EXCEPT ![t].val[1].Manufacturer = w.v]
            /\ UNCHANGED <<heap, sdb>>
       ELSE /\ w.i <= Len(thr[t].val[1].Address)
            /\ thr' = [u \in Threads |->
                          IF SameArray(u, t)
                          THEN [thr[u] EXCEPT !.val[1].Address[w.i] = w.v]
                          ELSE thr[u]]
            /\ IF thr[t].arr # 0
               THEN UNCHANGED <<heap, sdb>>
               ELSE IF thr[t].op \in {"LookUp", "Query"}
               THEN /\ heap' = [heap EXCEPT ![thr[t].gen][thr[t].hw].Address[w.i] = w.v]
                    /\ sdb' = sdb
               ELSE /\ sdb' = [sdb EXCEPT ![thr[t].hw].Address[w.i] = w.v]
                    /\ heap' = heap
    /\ UNCHANGED <<app, impl, ouiDb, dbTime, mu, sTime, order, origin>>

(***************************************************************************)
(* The App Engine service (part_003)                                       *)
(***************************************************************************)
\* The service is built on part_001: db is a DynamicDB that start has opened
\* with oui.Open.  The goroutine of request r is goroutine r of the store:
\* app.pc[r] is where its handler stands, thr[r] where the call of the store
\* it has made from there stands ("idle" before the call, "ret" when the
\* call has returned).

\* handler is called for request r.  startOnce has run and UpdateAt is set,
\* so the handler arrives at its test.
handler(r) ==
    /\ Handling(r, "idle") /\ At(r, "idle")
    /\ app' = [app EXCEPT !.pc[r] = "test"]
    /\ UNCHANGED <<impl, heap, ouiDb, dbTime, mu, sdb, sTime, thr, order, origin>>

\* if UpdateAt.Before(time.Now()) && !updating
handler_test(r) ==
    /\ Handling(r, "test")
    /\ app' = [app EXCEPT !.pc[r] = IF app.expired /\ ~app.updating THEN "set" ELSE "serve"]
    /\ UNCHANGED <<impl, heap, ouiDb, dbTime, mu, sdb, sTime, thr, order, origin>>

\* updating = true
handler_set(r) ==
    /\ Handling(r, "set")
    /\ app' = [app EXCEPT !.updating = TRUE, !.pc[r] = "update"]
    /\ UNCHANGED <<impl, heap, ouiDb, dbTime, mu, sdb, sTime, thr, order, origin>>

\* update: client.Get(dbUrl), which succeeds (ok) or makes update return.
update(r, ok) ==
    /\ Handling(r, "update")
    /\ app' = [app EXCEPT !.pc[r] = IF ok THEN "oui.Update" ELSE "clear"]
    /\ UNCHANGED <<impl, heap, ouiDb, dbTime, mu, sdb, sTime, thr, order, origin>>

\* update: err = oui.Update(db, resp.Body) has returned (the call and its
\* steps are Update, Update_scanOUI and updateDb's).  With an error update
\* returns; with nil UpdateAt is set 24 hours ahead.
update_Update(r) ==
    /\ Handling(r, "oui.Update")
    /\ At(r, "ret")
    /\ app' = [app EXCEPT !.pc[r] = "clear",
                          !.expired = IF thr[r].err = NilErr THEN FALSE ELSE @]
    /\ thr' = [thr EXCEPT ![r] = Idle]
    /\ UNCHANGED <<impl, heap, ouiDb, dbTime, mu, sdb, sTime, order, origin>>

\* updating = false
handler_clear(r) ==
    /\ Handling(r, "clear")
    /\ app' = [app EXCEPT !.updating = FALSE, !.pc[r] = "serve"]
    /\ UNCHANGED <<impl, heap, ouiDb, dbTime, mu, sdb, sTime, thr, order, origin>>

\* db.Generated() has returned (the call and its steps are Generated's): the
\* Last-Modified header is set and the handler goes on to the address.
handler_Generated(r) ==
    /\ Handling(r, "serve")
    /\ At(r, "ret")
    /\ app' = [app EXCEPT !.pc[r] = "LookUp"]
    /\ thr' = [thr EXCEPT ![r] = Idle]
    /\ UNCHANGED <<impl, heap, ouiDb, dbTime, mu, sdb, sTime, order, origin>>

\* oui.ParseMac(mac) has returned an error, or db.LookUp(*hw) has returned
\* (the two calls and the steps of LookUp are Query's): the response is
\* written and the handler returns.
handler_serve(r) ==
    /\ Handling(r, "LookUp")
    /\ At(r, "ret")
    /\ app' = [app EXCEPT !.pc[r] = "idle"]
    /\ thr' = [thr EXCEPT ![r] = Idle]
    /\ UNCHANGED <<impl, heap, ouiDb, dbTime, mu, sdb, sTime, order, origin>>

\* Time goes by until UpdateAt has passed.
UpdateAtPasses ==
    /\ ~app.expired
    /\ app' = [app EXCEPT !.expired = TRUE]
    /\ UNCHANGED <<impl, heap, ouiDb, dbTime, mu, sdb, sTime, thr, order, origin>>

(***************************************************************************)
(* The specification                                                       *)
(***************************************************************************)
\* The calls goroutine t can make on the updateable store, with keys,
\* readers and entries from the given sets.
Call(t, keys, readers, edits) ==
    \/ \E hw \in keys : LookUp(t, hw)
    \/ Generated(t)
    \/ \E a \in edits : UpdateEntry(t, a[1], a[2])
    \/ \E hw \in keys : DeleteEntry(t, hw)
    \/ \E r \in readers : Update(t, r)

\* The steps of goroutine t inside a call.
Step(t) ==
    \/ LookUp_RLock(t)
    \/ LookUp_read(t)
    \/ LookUp_RUnlock(t)
    \/ Generated_RLock(t)
    \/ Generated_read(t)
    \/ Generated_RUnlock(t)
    \/ UpdateEntry_Lock(t)
    \/ UpdateEntry_set(t)
    \/ UpdateEntry_Unlock(t)
    \/ DeleteEntry_Lock(t)
    \/ DeleteEntry_del(t)
    \/ DeleteEntry_Unlock(t)
    \/ Update_scanOUI(t)
    \/ updateDb_Lock(t)
    \/ updateDb_swap(t)
    \/ updateDb_generatedAt(t)
    \/ updateDb_Unlock(t)
    \/ Return(t)

Next == \E t \in Threads : Call(t, ConcKeys, ConcReaders, ConcEdits) \/ Step(t)

\* The updateable store called from NThreads goroutines.
Spec == Init /\ [][Next]_vars

\* One goroutine that calls both stores, Query and the static store included.
NextSeq ==
    \/ Call(1, LookUpKeys, UpdateReaders, ConcEdits)
    \/ Step(1)
    \/ \E mac \in QueryTexts : Query(1, mac)
    \/ \E hw \in LookUpKeys : staticLookUp(1, hw)
    \/ \E mac \in QueryTexts : staticQuery(1, mac)
    \/ staticGenerated(1)
    \/ \E fn \in UpdateFns, r \in UpdateReaders \cup {0} : UpdateOn(1, fn, "staticDB", r)
    \/ \E fn \in UpdateFns : UpdateOn(1, fn, "updateableDB", 0)

SpecSeq == Init /\ [][NextSeq]_vars

\* One goroutine that calls the updateable store, with every entry of
\* EditArgs.
NextEdit ==
    \/ Call(1, LookUpKeys, UpdateReaders, EditArgs)
    \/ Step(1)

SpecEdit == Init /\ [][NextEdit]_vars

\* One goroutine that calls ParseMac.
InitMac == Init /\ impl = "oui.go" /\ origin = <<1>>

NextMac ==
    \/ MayCall(1) /\ \E mac \in MacTexts : CallParseMac(1, mac)
    \/ Return(1)

SpecMac == InitMac /\ [][NextMac]_vars

\* One goroutine that calls scanOUI.
NextScan ==
    \/ MayCall(1) /\ \E c \in ScanCases : CallScanOUI(1, c)
    \/ Return(1)

SpecScan == InitMac /\ [][NextScan]_vars

\* One goroutine that looks records up in both stores, changes what it was
\* given, and stores entries of its own.
NextCaller ==
    \/ MayCall(1) /\ \E hw \in LookUpKeys : LookUp(1, hw)
    \/ LookUp_RLock(1)
    \/ LookUp_read(1)
    \/ LookUp_RUnlock(1)
    \/ \E hw \in LookUpKeys : staticLookUp(1, hw)
    \/ \E w \in EntryWrites : EntryWrite(1, w)
    \/ \E a \in ConcEdits : UpdateEntry(1, a[1], a[2])
    \/ UpdateEntry_Lock(1)
    \/ UpdateEntry_set(1)
    \/ UpdateEntry_Unlock(1)
    \/ Return(1)

SpecCaller == Init /\ [][NextCaller]_vars

\* The service handling one request per goroutine: the steps of the handler
\* and, where the handler calls the store, the call and its steps.
InitHandler == Init /\ impl = "part_001"

NextHandler ==
    \/ \E r \in Requests :
          \/ handler(r)
          \/ handler_test(r)
          \/ handler_set(r)
          \/ \E ok \in BOOLEAN : update(r, ok)
          \/ Handling(r, "oui.Update") /\ \E rd \in ConcReaders : Update(r, rd)
          \/ Update_scanOUI(r)
          \/ updateDb_Lock(r)
          \/ updateDb_swap(r)
          \/ updateDb_generatedAt(r)
          \/ updateDb_Unlock(r)
          \/ update_Update(r)
          \/ handler_clear(r)
          \/ Handling(r, "serve") /\ Generated(r)
          \/ Generated_RLock(r)
          \/ Generated_read(r)
          \/ Generated_RUnlock(r)
          \/ handler_Generated(r)
          \/ Handling(r, "LookUp") /\ \E mac \in QueryTexts : Query(r, mac)
          \/ LookUp_RLock(r)
          \/ LookUp_read(r)
          \/ LookUp_RUnlock(r)
          \/ handler_serve(r)
    \/ UpdateAtPasses

SpecHandler == InitHandler /\ [][NextHandler]_vars

\* One call of Open, OpenFile or OpenHttp: the database it returns takes the
\* place of the one of Init.
NextOpen ==
    /\ MayCall(1)
    /\ \/ \E ls \in RegistryStreams : Open(1, ls)
       \/ \E fn \in DOMAIN OpenErr, ls \in RegistryStreams : OpenFile(1, fn, TRUE, ls)
       \/ \E fn \in DOMAIN OpenErr : OpenFile(1, fn, FALSE, <<>>)

SpecOpen == InitMac /\ [][NextOpen]_vars

(***************************************************************************)
(* Properties                                                              *)
(***************************************************************************)
\* The elements of a sequence, and the place of one of them.
Range(s) == {s[i] : i \in DOMAIN s}

Pos(s, x) == CHOOSE i \in DOMAIN s : s[i] = x

\* C1: failure atomicity of Update.  Every step of an Update whose stream has
\* a header that ParseMac refuses leaves the store as it was: the active map,
\* its content, the time and the history of replacements do not change, the
\* call only parses and then returns ParseMac's error.  So LookUp and
\* Generated answer after it as before it, also for the keys the stream had
\* given before the bad header.
C1_FailedUpdateLeavesStore ==
    [][\A t \in Threads :
          (/\ thr'[t] # thr[t]
           /\ thr'[t].op = "Update"
           /\ Scanned[thr'[t].rd].err # NilErr)
          => /\ ouiDb' = ouiDb
             /\ heap'[ouiDb] = heap[ouiDb]
             /\ dbTime' = dbTime
             /\ order' = order
             /\ mu' = mu
             /\ thr'[t].pc \in {"scanOUI", "ret"}
             /\ thr'[t].pc = "ret" => /\ thr'[t].err = Scanned[thr'[t].rd].err
                                      /\ thr'[t].err.kind = "ErrInvalidMac"]_vars

\* Two Updates in a row have failed on the bad header, each after it had
\* parsed the record of K3, which the store does not hold; the store still
\* serves the map of Open.
C1_Witness ==
    \E t \in Threads :
        /\ thr[t].op = "Update" /\ thr[t].pc = "ret"
        /\ thr[t].err.kind = "ErrInvalidMac"
        /\ K3 \in DOMAIN heap[thr[t].dst]
        /\ K3 \notin DOMAIN heap[ouiDb]
        /\ Len(heap) = 3
        /\ order = <<1>>

\* C2: an Update whose stream ends with a read error returns an error and
\* does not replace the database: its map is never made the active one.
C2_ReadErrorKeepsStore ==
    \A t \in Threads :
        (thr[t].op = "Update" /\ Readers[thr[t].rd].fail)
        => /\ thr[t].dst \notin Range(order)
           /\ thr[t].pc = "ret" => thr[t].err # NilErr

\* C3: every Update completes with the lock released.  The goroutine that
\* is inside updateDb holds the lock, so nothing can make it wait: it can
\* always take its next step, up to the Unlock and the return.
C3_UpdateCompletes ==
    \A t \in Threads :
        thr[t].pc \in {"updateDb_swap", "updateDb_generatedAt", "updateDb_Unlock"}
        => ENABLED Step(t)

\* C4: a LookUp is answered from one generation.  While it holds the read
\* lock after its read, the map it read is still the active one and what it
\* read is what that map holds for the key: no replacement and no edit has
\* come between, so the result is that generation's record or its absence.
C4_LookUpOneGeneration ==
    \A t \in Threads :
        thr[t].pc = "LookUp_RUnlock"
        => /\ thr[t].gen = ouiDb
           /\ thr[t].val = MapGet(heap[thr[t].gen], thr[t].hw)

\* A LookUp holds its result while an Update waits to replace the map with
\* one that holds another record for the key.
C4_Witness ==
    \E t, u \in Threads :
        /\ thr[t].pc = "LookUp_RUnlock"
        /\ thr[u].pc = "updateDb_Lock"
        /\ MapGet(heap[thr[u].dst], thr[t].hw) # thr[t].val

\* C5: replacements are totally ordered and lookups follow them.  Every map
\* is made active at most once and the active map is the last one installed;
\* an Update that has returned nil has installed its map; and a LookUp reads
\* a map installed no earlier than the one that was active when it was
\* called, so never an older one than that of an Update that had returned.
C5_ReplaceOrder ==
    /\ \A i, j \in DOMAIN order : order[i] = order[j] => i = j
    /\ ouiDb = order[Len(order)]
    /\ \A t \in Threads :
          (thr[t].op = "Update" /\ thr[t].pc = "ret" /\ thr[t].err = NilErr)
          => thr[t].dst \in Range(order)
    /\ \A t \in Threads :
          thr[t].gen # 0
          => /\ thr[t].gen \in Range(order)
             /\ Pos(order, thr[t].gen) >= thr[t].from

\* A LookUp called after the first replacement has returned its result from
\* the map of the second one.
C5_Witness ==
    \E t \in Threads :
        /\ thr[t].op = "LookUp" /\ thr[t].pc = "ret"
        /\ Len(order) = 3
        /\ thr[t].from = 2
        /\ thr[t].gen = order[3]

\* C6: Update parses outside the lock into a detached map.  While an Update
\* is in scanOUI its map is not the active one and never was; a LookUp that
\* waits for the read lock while the other goroutines only parse or are idle
\* gets it; and a step of the parse changes neither the active map, nor its
\* content, nor the lock.
C6_ParseDetached ==
    /\ [](\A t \in Threads :
             thr[t].pc = "scanOUI"
             => /\ thr[t].dst # ouiDb
                /\ thr[t].dst \notin Range(order)
                /\ \A u \in Threads :
                      (/\ thr[u].pc = "LookUp_RLock"
                       /\ \A w \in Threads \ {u} : thr[w].pc \in {"scanOUI", "idle"})
                      => CanRLock(mu))
    /\ [][\A t \in Threads :
             (thr[t].pc = "scanOUI" /\ thr'[t] # thr[t])
             => /\ ouiDb' = ouiDb
                /\ heap'[ouiDb] = heap[ouiDb]
                /\ mu' = mu]_vars

\* An Update has parsed a record for a key and parses on, while a LookUp
\* holds the read lock with the other record that the active map has for
\* that key.
C6_Witness ==
    \E t, u \in Threads :
        /\ thr[t].pc = "scanOUI"
        /\ thr[u].pc = "LookUp_RUnlock"
        /\ thr[u].hw \in DOMAIN heap[thr[t].dst]
        /\ thr[u].val = MapGet(heap[ouiDb], thr[u].hw)
        /\ thr[u].val # MapGet(heap[thr[t].dst], thr[u].hw)

\* The goroutine is at a statement that writes the store's map (an entry of
\* it, or the reference to it), or at the one that reads it.
Writing(t) == thr[t].pc \in {"UpdateEntry_set", "DeleteEntry_del", "updateDb_swap"}

Reading(t) == thr[t].pc = "LookUp_read"

\* C7: the map is accessed under the lock.  A goroutine that writes the map
\* holds the lock exclusively, and no other goroutine writes or reads the
\* map then; a goroutine that reads it holds the lock shared, with no writer.
C7_MapAccessExclusive ==
    \A t \in Threads :
        /\ Writing(t) => /\ mu.w /\ mu.r = 0
                         /\ \A u \in Threads \ {t} : ~Writing(u) /\ ~Reading(u)
        /\ Reading(t) => ~mu.w /\ mu.r >= 1

\* A replacement is writing the reference to the map while a LookUp waits
\* for the read lock.
C7_Witness ==
    \E t, u \in Threads :
        /\ thr[t].pc = "updateDb_swap"
        /\ thr[u].pc = "LookUp_RLock"

\* C8: after Update has returned nil the store holds the parse of its
\* stream and nothing else: the active map is the map of that Update and its
\* content is what scanOUI makes of the stream, so LookUp finds exactly the
\* records of the stream.
C8_UpdateReplacesContent ==
    \A t \in Threads :
        (thr[t].op = "Update" /\ thr[t].pc = "ret" /\ thr[t].err = NilErr)
        => /\ ouiDb = thr[t].dst
           /\ heap[ouiDb] = Scanned[thr[t].rd].db
           /\ \A k \in {K1, K2, K3} :
                 LookUpResult(MapGet(heap[ouiDb], k))
                    = LookUpResult(MapGet(Scanned[thr[t].rd].db, k))

\* An Update has returned nil; the map served before held K1, as edited by
\* UpdateEntry, and the stream has no record for K1: the store has none.
C8_Witness ==
    \E t \in Threads :
        /\ thr[t].op = "Update" /\ thr[t].pc = "ret" /\ thr[t].err = NilErr
        /\ Len(order) = 2
        /\ K1 \in DOMAIN heap[order[1]]
        /\ heap[order[1]][K1].Manufacturer = "Edited"
        /\ K1 \notin DOMAIN Scanned[thr[t].rd].db
        /\ K1 \notin DOMAIN heap[ouiDb]

\* C9: Generated returns the time of the stream being served: the time of
\* the Generated header of the stream the active map was parsed from, the
\* zero time if that stream had none that parses.
C9_GeneratedOfServedStream ==
    \A t \in Threads :
        (thr[t].op = "Generated" /\ thr[t].pc = "ret")
        => thr[t].val = <<generatedAt(ZeroTime, Scanned[origin[ouiDb]].generated)>>

\* An address as the specification has it: at least 6 characters, at least
\* 3 fields, each of the first 3 of exactly 2 hexadecimal digits.
WellFormedMac(mac) ==
    /\ Len(mac) >= 6
    /\ Len(MacElements(mac)) >= 3
    /\ \A i \in 1..3 : /\ Len(MacElements(mac)[i]) = 2
                       /\ Ch(MacElements(mac)[i], 1) \in HexChars
                       /\ Ch(MacElements(mac)[i], 2) \in HexChars

\* The key of a well-formed address.
MacKey(mac) == [i \in 1..3 |-> HexNum(MacElements(mac)[i])]

\* The map a returned call of the one goroutine was answered from.
StoreOf(op) == IF op \in {"staticDB.LookUp", "staticDB.Query"} THEN sdb ELSE heap[ouiDb]

\* C10: the errors of a lookup tell a bad query from a missing key, on both
\* stores.  LookUp of an absent key returns nil and ErrNotFound; Query of a
\* malformed text returns an ErrInvalidMac; Query of a well-formed text whose
\* key is absent returns ErrNotFound.
C10_ErrorsDistinguished ==
    \A t \in Threads :
        thr[t].pc = "ret"
        => /\ (/\ thr[t].op \in {"LookUp", "staticDB.LookUp"}
               /\ thr[t].hw \notin DOMAIN StoreOf(thr[t].op))
              => thr[t].val = <<>> /\ thr[t].err = ErrNotFound
           /\ (/\ thr[t].op \in {"Query", "staticDB.Query"}
               /\ ~WellFormedMac(thr[t].text))
              => thr[t].val = <<>> /\ thr[t].err.kind = "ErrInvalidMac"
           /\ (/\ thr[t].op \in {"Query", "staticDB.Query"}
               /\ WellFormedMac(thr[t].text)
               /\ MacKey(thr[t].text) \notin DOMAIN StoreOf(thr[t].op))
              => thr[t].val = <<>> /\ thr[t].err = ErrNotFound

\* A field of exactly two hexadecimal digits.
HexPair(f) == Len(f) = 2 /\ Ch(f, 1) \in HexChars /\ Ch(f, 2) \in HexChars

\* The fields of a text written in the style of sep; an unseparated text
\* (sep = "") has fields when its length is even.
FieldsOf(text, sep) ==
    IF sep # "" THEN Split(text, sep)
    ELSE IF Len(text) % 2 = 0 THEN Pairs(text)
    ELSE <<>>

\* C11: ParseMac does not depend on the separator style.  A text of three
\* or more pairs of hexadecimal digits, written with "-", with ":" or with
\* nothing between them, parses without error to the key of its first three
\* pairs, and so does the same text in each of the other styles.
C11_SeparatorIndependent ==
    \A t \in Threads :
        (thr[t].op = "ParseMac" /\ thr[t].pc = "ret")
        => \A sep \in MacSeparators :
              LET f == FieldsOf(thr[t].text, sep)
              IN  (Len(f) >= 3 /\ \A i \in 1..Len(f) : HexPair(f[i]))
                  => /\ thr[t].err = NilErr
                     /\ thr[t].hw = << <<HexNum(f[1]), HexNum(f[2]), HexNum(f[3])>> >>
                     /\ \A other \in MacSeparators :
                           ParseMac(Join(f, other)) = [hw |-> thr[t].hw, err |-> NilErr]

\* ParseMac has returned the key a1-FF-00 for a text of four pairs joined
\* by ":".
C11_Witness ==
    \E t \in Threads :
        /\ thr[t].op = "ParseMac" /\ thr[t].pc = "ret"
        /\ thr[t].text = "a1:FF:00:a1"
        /\ thr[t].hw = << <<161, 255, 0>> >>

\* The separator ParseMac reads a text of at least 6 characters with, ""
\* for an unseparated text.
StyleOf(text) ==
    IF Ch(text, 3) = ":" \/ Ch(text, 3) = "-" THEN Ch(text, 3) ELSE ""

\* ParseMac has returned from a call on a text that has three fields or more.
ParsedFields(t) ==
    /\ thr[t].op = "ParseMac" /\ thr[t].pc = "ret"
    /\ Len(thr[t].text) >= 6
    /\ Len(MacElements(thr[t].text)) >= 3

\* C12: when ParseMac succeeds, byte i of the key is the hexadecimal value of
\* the i-th field of two characters (i = 1..3), in the order of the text; and
\* the fields after the third change neither the key nor the success: the
\* first three fields alone give the same key, or fail as well.
C12_KeyIsFieldValues ==
    \A t \in Threads :
        ParsedFields(t)
        => LET s == MacElements(thr[t].text)
               first3 == Join(SubSeq(s, 1, 3), StyleOf(thr[t].text))
           IN  /\ thr[t].err = NilErr
                  => \A i \in 1..3 : /\ HexPair(s[i])
                                     /\ thr[t].hw[1][i] = HexNum(s[i])
               /\ ParseMac(first3).hw = thr[t].hw
               /\ (ParseMac(first3).err = NilErr) = (thr[t].err = NilErr)

\* C13: ParseMac accepts a text only if each of its first three fields is
\* exactly two hexadecimal digits; when one of them holds a character that is
\* no hexadecimal digit, it returns no key and an error that names the index
\* of such a field.
C13_OnlyHexPairsAccepted ==
    \A t \in Threads :
        ParsedFields(t)
        => LET s == MacElements(thr[t].text)
               bad == {i \in 1..3 : ~HexPair(s[i])}
           IN  bad # {}
               => /\ thr[t].hw = <<>>
                  /\ thr[t].err.kind = "ErrInvalidMac"
                  /\ \E i \in bad :
                        HasPrefix(thr[t].err.Reason,
                                  "Address element " \o ToString(i) \o " (")

\* The error ParseMac returns for an element that is not 2 characters long.
NotTwoCharacters(i, p, mac) ==
    ErrInvalidMac("Address element " \o ToString(i) \o " (" \o p
                     \o ") is not 2 characters", mac)

\* ParseMac has returned from a call on a text of at least 6 characters with
\* a separator at position 2.
ParsedSeparated(t) ==
    /\ thr[t].op = "ParseMac" /\ thr[t].pc = "ret"
    /\ Len(thr[t].text) >= 6
    /\ StyleOf(thr[t].text) # ""

\* C14 (as stated): for a separated text of at least 6 characters whose first
\* field of a length other than 2 is field i (i <= 3), ParseMac returns no key
\* and the error "Address element i (field) is not 2 characters" with the
\* text.
C14_ShortFieldNamed_AsStated ==
    \A t \in Threads :
        ParsedSeparated(t)
        => LET s == Split(thr[t].text, StyleOf(thr[t].text))
           IN  \A i \in 1..3 :
                  (/\ i <= Len(s)
                   /\ Len(s[i]) # 2
                   /\ \A j \in 1..(i - 1) : Len(s[j]) = 2)
                  => /\ thr[t].hw = <<>>
                     /\ thr[t].err = NotTwoCharacters(i, s[i], thr[t].text)

\* C14 (amended): the same, for a text that has at least 3 fields and whose
\* fields before field i are each read as a hexadecimal value by ParseMac.
C14_ShortFieldNamed ==
    \A t \in Threads :
        ParsedSeparated(t)
        => LET s == Split(thr[t].text, StyleOf(thr[t].text))
           IN  \A i \in 1..3 :
                  (/\ Len(s) >= 3
                   /\ Len(s[i]) # 2
                   /\ \A j \in 1..(i - 1) : Len(s[j]) = 2 /\ Sscanf_x(s[j]).n = 1)
                  => /\ thr[t].hw = <<>>
                     /\ thr[t].err = NotTwoCharacters(i, s[i], thr[t].text)

\* ParseMac has refused "00-a1-", naming its empty element 3.
C14_Witness ==
    \E t \in Threads :
        /\ thr[t].op = "ParseMac" /\ thr[t].pc = "ret"
        /\ thr[t].text = "00-a1-"
        /\ thr[t].hw = <<>>
        /\ thr[t].err.Reason = "Address element 3 () is not 2 characters"

\* C15: ParseMac refuses every text of fewer than 6 characters as too short,
\* whatever its fields are, and every longer text that splits into fewer
\* than 3 fields for want of 3 elements; it returns no key in both cases.
C15_ShortInputsRefused ==
    \A t \in Threads :
        (thr[t].op = "ParseMac" /\ thr[t].pc = "ret")
        => /\ Len(thr[t].text) < 6
              => /\ thr[t].hw = <<>>
                 /\ thr[t].err =
                       ErrInvalidMac("Mac address too short. Should be at least 6 characters",
                                     thr[t].text)
           /\ (/\ Len(thr[t].text) >= 6
               /\ StyleOf(thr[t].text) # ""
               /\ Len(Split(thr[t].text, StyleOf(thr[t].text))) < 3)
              => /\ thr[t].hw = <<>>
                 /\ thr[t].err =
                       ErrInvalidMac("Unable to find at least 3 address elements",
                                     thr[t].text)

\* ParseMac has refused "00-02:FF", which has "-" at position 2 and then ":",
\* for want of 3 elements.
C15_Witness ==
    \E t \in Threads :
        /\ thr[t].op = "ParseMac" /\ thr[t].pc = "ret"
        /\ thr[t].text = "00-02:FF"
        /\ thr[t].hw = <<>>
        /\ thr[t].err.Reason = "Unable to find at least 3 address elements"

\* The map that was active when the Update goroutine t is in was called
\* (one goroutine: no other call has replaced it since).
Before(t) ==
    IF thr[t].pc \in {"scanOUI", "updateDb_Lock", "updateDb_swap"}
    THEN ouiDb
    ELSE order[Len(order) - 1]

\* Goroutine t is in an Update with a stream that the Update before it has
\* made the content of the store, and the store is as that Update left it.
SecondUpdate(t) ==
    /\ thr[t].op = "Update"
    /\ thr[t].pc \in {"scanOUI", "updateDb_Lock", "updateDb_swap",
                      "updateDb_generatedAt", "updateDb_Unlock"}
    /\ Before(t) # order[1]
    /\ origin[Before(t)] = thr[t].rd
    /\ heap[Before(t)] = Scanned[thr[t].rd].db

\* C16: Update is idempotent.  No step of an Update with the stream S, made
\* on a store that is as an Update with S left it, changes what a LookUp of
\* any key or Generated() returns: after the second Update they return what
\* they returned after the first.  The second Update finds a store with a
\* history (the map the first one superseded, the time the first one set); the
\* property holds because it parses into a map of its own and takes nothing
\* from that history.
C16_UpdateIdempotent ==
    [][\A t \in Threads :
          SecondUpdate(t)
          => /\ \A k \in {K1, K2, K3} :
                   MapGet(heap'[ouiDb'], k) = MapGet(heap[Before(t)], k)
             /\ dbTime' = dbTime]_vars

\* Update has returned nil for the second time in a row with reader 2: the
\* store holds the records and the time of reader 2, as after the first, and
\* not the record of K2 that the map of Open, superseded by the first, has.
C16_Witness ==
    \E t \in Threads :
        /\ thr[t].op = "Update" /\ thr[t].pc = "ret" /\ thr[t].err = NilErr
        /\ thr[t].rd = 2
        /\ order = <<1, 2, 3>>
        /\ origin[2] = 2
        /\ heap[2] = Scanned[2].db
        /\ heap[ouiDb] = Scanned[2].db
        /\ dbTime = Scanned[2].generated[1]
        /\ K2 \in DOMAIN heap[1]
        /\ K2 \notin DOMAIN heap[ouiDb]

\* C17: Update, UpdateFile and UpdateHttp called with the static database
\* return ErrNotUpdateable at once: no map is allocated and nothing is read
\* from the source; and no step changes the content or the time of the
\* static database.  The static database is no Updater: it has no
\* UpdateEntry, DeleteEntry or updateDb.
C17_StaticNotUpdateable ==
    /\ [](/\ ~Updater("staticDB")
          /\ \A t \in Threads :
                thr[t].op \in {UpdateOp(fn, "staticDB") : fn \in UpdateFns}
                => /\ thr[t].pc = "ret"
                   /\ thr[t].err = ErrNotUpdateable
                   /\ thr[t].pos = 0
                   /\ thr[t].dst = 0)
    /\ [][sdb' = sdb /\ sTime' = sTime]_vars

\* UpdateHttp has returned ErrNotUpdateable for the static database, after
\* an Update of the updateable database has replaced that one's content.
C17_Witness ==
    \E t \in Threads :
        /\ thr[t].op = UpdateOp("UpdateHttp", "staticDB") /\ thr[t].pc = "ret"
        /\ thr[t].err = ErrNotUpdateable
        /\ Len(order) = 2
        /\ sdb = heap[1]
        /\ heap[ouiDb] # sdb

\* scanOUI has returned to goroutine t.
Scanned1(t) == thr[t].op = "scanOUI" /\ thr[t].pc = "ret"

\* C18: scanOUI of a stream that is a Generated header, one record header
\* and its address lines returns no error and leaves exactly one record; its
\* key is the header's address, its manufacturer the last field of the
\* header line, its address lines the indented lines in their order, its
\* country the last of them ("" when there are none); the time returned is
\* the header's.
C18_OneRecordParsed ==
    \A t \in Threads :
        Scanned1(t)
        => LET c == thr[t].e
               db == thr[t].val
               k == c.prefix.key
               n == Len(c.address)
           IN  /\ thr[t].err = NilErr
               /\ DOMAIN db = {k}
               /\ db[k].Prefix = k
               /\ db[k].Manufacturer = c.tail.manufacturer
               /\ db[k].Address = [i \in 1..n |-> c.address[i].line]
               /\ db[k].Country = IF n = 0 THEN "" ELSE c.address[n].line
               /\ thr[t].generated = <<c.date.time>>

\* scanOUI has returned the record of 02:FF:03 with two address lines, the
\* second one DENMARK.
C18_Witness ==
    \E t \in Threads :
        /\ Scanned1(t)
        /\ thr[t].text = "Generated: Sun, 25 Jan 2015 23:59:04 +0100\n02:FF:03\tAcme\tInc.\n"
                            \o "\t\t\t\t1 Main St\n\tDENMARK \r\n"
        /\ DOMAIN thr[t].val = {<<2, 255, 3>>}
        /\ thr[t].val[<<2, 255, 3>>].Address = <<"1 Main St", "DENMARK">>
        /\ thr[t].val[<<2, 255, 3>>].Country = "DENMARK"

\* C20: every record scanOUI builds has Local set exactly when bit 0x02 of
\* the first byte of its prefix is set, and Multicast exactly when bit 0x01
\* is; the flags are those the first byte stands for, whatever the second
\* and third bytes are, and they are what HardwareAddr.Local() and
\* HardwareAddr.Multicast() return for the prefix.
C20_FlagsOfFirstByte ==
    \A t \in Threads :
        Scanned1(t)
        => \A k \in DOMAIN thr[t].val :
              LET e == thr[t].val[k]
              IN  /\ e.Local = ((e.Prefix[1] \div 2) % 2 = 1)
                  /\ e.Multicast = (e.Prefix[1] % 2 = 1)
                  /\ e.Prefix[1] = thr[t].e.prefix.first.byte
                  /\ e.Local = thr[t].e.prefix.first.local
                  /\ e.Multicast = thr[t].e.prefix.first.multicast
                  /\ e.Local = Local(e.Prefix)
                  /\ e.Multicast = Multicast(e.Prefix)

\* scanOUI has built the record of 03-FF-00 with both flags set.
C20_Witness ==
    \E t \in Threads :
        /\ Scanned1(t)
        /\ thr[t].e.prefix.text = "03-FF-00"
        /\ <<3, 255, 0>> \in DOMAIN thr[t].val
        /\ thr[t].val[<<3, 255, 0>>].Local
        /\ thr[t].val[<<3, 255, 0>>].Multicast

\* C19: every record of the content being served agrees with the key it is
\* stored under: its Prefix is the key, its Local flag is bit 0x02 of the
\* key's first byte and its Multicast flag is bit 0x01 of it.
C19_RecordsMatchKeys ==
    \A k \in DOMAIN heap[ouiDb] :
        LET e == heap[ouiDb][k]
        IN  /\ e.Prefix = k
            /\ e.Local = ((k[1] \div 2) % 2 = 1)
            /\ e.Multicast = (k[1] % 2 = 1)

\* Goroutine t has made the change of its UpdateEntry or DeleteEntry.
Edited(t, op) ==
    thr[t].op = op /\ thr[t].pc \in {op \o "_Unlock", "ret"}

\* The step is one of an UpdateEntry or DeleteEntry of goroutine t.
EditStep(t) ==
    /\ thr'[t] # thr[t]
    /\ thr[t].op \in {"UpdateEntry", "DeleteEntry"} \/ thr'[t].op \in {"UpdateEntry", "DeleteEntry"}

\* The key of the edit goroutine t is in, before or after the step.
EditKey(t) == IF thr'[t].pc = "idle" THEN thr[t].hw ELSE thr'[t].hw

\* C21: with one goroutine calling the store, once UpdateEntry(k, e) has
\* written, the store holds e for k, and once DeleteEntry(k) has written it
\* holds nothing for k; a LookUp returns what the store holds for its key,
\* ErrNotFound for nothing.  What the store holds for a key changes only in
\* the write of an UpdateEntry or DeleteEntry of that key or in the swap of
\* an Update.  No step of an UpdateEntry or DeleteEntry changes what is held
\* for another key, the active map or the time, and a DeleteEntry of an
\* absent key changes no map at all.
C21_EditsOneKey ==
    /\ [](\A t \in Threads :
            /\ Edited(t, "UpdateEntry") => MapGet(heap[ouiDb], thr[t].hw) = thr[t].e
            /\ Edited(t, "DeleteEntry") => MapGet(heap[ouiDb], thr[t].hw) = <<>>
            /\ (thr[t].op = "LookUp" /\ thr[t].pc = "ret")
               => /\ thr[t].val = MapGet(heap[ouiDb], thr[t].hw)
                  /\ thr[t].err = IF thr[t].val = <<>> THEN ErrNotFound ELSE NilErr)
    /\ [][/\ \A k \in {K1, K2, K3} :
                MapGet(heap'[ouiDb'], k) # MapGet(heap[ouiDb], k)
                => \E t \in Threads :
                      \/ At(t, "UpdateEntry_set") /\ thr[t].hw = k
                      \/ At(t, "DeleteEntry_del") /\ thr[t].hw = k
                      \/ At(t, "updateDb_swap")
          /\ \A t \in Threads :
                EditStep(t)
                => /\ \A k \in {K1, K2, K3} \ {EditKey(t)} :
                         MapGet(heap'[ouiDb'], k) = MapGet(heap[ouiDb], k)
                   /\ ouiDb' = ouiDb
                   /\ dbTime' = dbTime
                   /\ (At(t, "DeleteEntry_del") /\ thr[t].hw \notin DOMAIN heap[ouiDb])
                      => heap' = heap]_vars

\* A LookUp of K1 has returned the entry that an UpdateEntry stored, from a
\* map that holds another key as well.
C21_Witness ==
    \E t \in Threads :
        /\ thr[t].op = "LookUp" /\ thr[t].pc = "ret" /\ thr[t].hw = K1
        /\ thr[t].val # <<>>
        /\ thr[t].val[1].Manufacturer = "Edited"
        /\ DOMAIN heap[ouiDb] # {K1}

\* Open has returned to goroutine t.
Opened(t) == thr[t].op = "Open" /\ thr[t].pc = "ret"

RECURSIVE OwnLines(_, _)
\* The address lines that stand directly after line i - 1 of ls.
OwnLines(ls, i) ==
    IF i > Len(ls) \/ ls[i].kind # "address" THEN <<>>
    ELSE <<ls[i].name>> \o OwnLines(ls, i + 1)

\* Line i of ls is a record header, and the last one of its key.
LastHeader(ls, i) ==
    /\ ls[i].kind = "header" /\ ls[i].key # <<>>
    /\ \A j \in (i + 1)..Len(ls) : ls[j].kind = "header" => ls[j].key # ls[i].key

\* C22: a line of 2 characters or more that does not start with a tab ends
\* the address lines of a record and is then read as a line of its own, so
\* that a record header that follows another one, with or without address
\* lines and with no blank line between them, gives a record too: in a
\* stream that parses without error every key's last header has its record
\* in the database, with the address lines that stand directly after it and
\* no others.
C22_NextHeaderEndsRecord ==
    \A t \in Threads :
        (Opened(t) /\ thr[t].err = NilErr)
        => \A i \in 1..Len(thr[t].e) :
              LastHeader(thr[t].e, i)
              => /\ thr[t].e[i].key[1] \in DOMAIN heap[ouiDb]
                 /\ heap[ouiDb][thr[t].e[i].key[1]].Address = OwnLines(thr[t].e, i + 1)

\* C23: when a stream that parses without error holds several record headers
\* of one key, the database holds for that key the record of the last of
\* them: its manufacturer and the address lines that stand after it, none of
\* an earlier record.
C23_LastRecordWins ==
    \A t \in Threads :
        (Opened(t) /\ thr[t].err = NilErr)
        => \A i \in 1..Len(thr[t].e) :
              (/\ LastHeader(thr[t].e, i)
               /\ \E j \in 1..(i - 1) : /\ thr[t].e[j].kind = "header"
                                        /\ thr[t].e[j].key = thr[t].e[i].key)
              => LET k == thr[t].e[i].key[1]
                 IN  /\ k \in DOMAIN heap[ouiDb]
                     /\ heap[ouiDb][k].Manufacturer = thr[t].e[i].name
                     /\ heap[ouiDb][k].Address = OwnLines(thr[t].e, i + 1)

\* The time of the last "Generated: " line of ls whose date parses, none when
\* there is no such line.
LastGenerated(ls) ==
    LET G == {i \in 1..Len(ls) : ls[i].kind = "generated" /\ ls[i].time # <<>>}
    IN  IF G = {} THEN <<>> ELSE ls[CHOOSE i \in G : \A j \in G : j <= i].time

\* C24: on a stream none of whose record headers fails in ParseMac, the scan
\* ends without error whatever "Generated: " lines it holds; the time it
\* returns is that of the last such line that parses, an unparsable one
\* leaving the time found before; and the database holds a record for the
\* key of every record header and for nothing else.
C24_GeneratedTolerant ==
    \A t \in Threads :
        (Opened(t) /\ \A i \in 1..Len(thr[t].e) :
                          thr[t].e[i].kind = "header" => thr[t].e[i].key # <<>>)
        => /\ thr[t].err = NilErr
           /\ thr[t].generated = LastGenerated(thr[t].e)
           /\ dbTime = generatedAt(ZeroTime, LastGenerated(thr[t].e))
           /\ DOMAIN heap[ouiDb]
                 = {thr[t].e[i].key[1] : i \in {j \in 1..Len(thr[t].e) : thr[t].e[j].kind = "header"}}

\* The record headers of ls whose address ParseMac refuses.
BadHeaders(ls) == {i \in 1..Len(ls) : ls[i].kind = "header" /\ ls[i].key = <<>>}

\* The first of them.
FirstBad(ls) == CHOOSE i \in BadHeaders(ls) : \A j \in BadHeaders(ls) : i <= j

\* C25: on a stream with a record header whose address fails in ParseMac the
\* scan ends at the first such line: it returns ParseMac's error for that
\* line and the time of the last parsable "Generated: " line before it, and
\* the database holds the records of the headers before that line and
\* nothing of that line or of a later one.
C25_StopsAtBadHeader ==
    \A t \in Threads :
        (Opened(t) /\ BadHeaders(thr[t].e) # {})
        => LET f      == FirstBad(thr[t].e)
               before == SubSeq(thr[t].e, 1, f - 1)
           IN  /\ thr[t].err # NilErr
               /\ thr[t].err = scanTexts[thr[t].e[f].text].bt.err
               /\ thr[t].pos = f
               /\ thr[t].generated = LastGenerated(before)
               /\ DOMAIN heap[ouiDb]
                     = {before[i].key[1] : i \in {j \in 1..Len(before) : before[j].kind = "header"}}

\* A call of Open, OpenFile or OpenHttp by t has returned.
OpenReturned(t) == thr[t].op \in {"Open"} \cup DOMAIN OpenErr /\ thr[t].pc = "ret"

\* What a scan of the lines of ls before line n leaves.
ScanBefore(ls, n) == scanRun([i \in 1..(n - 1) |-> ls[i].text], scanStart)

\* C26: a call of Open, OpenFile or OpenHttp whose stream fails at a record
\* header returns the error with a database that is not nil, whose content
\* and time are those of a scan of the lines before the failing line, which
\* itself ends without error; and the returned database is nil exactly when
\* OpenFile or OpenHttp could not open its source.
C26_OpenReturnsBoth ==
    \A t \in Threads :
        OpenReturned(t)
        => /\ (thr[t].err # NilErr /\ thr[t].err \notin Range(OpenErr))
              => LET pre == ScanBefore(thr[t].e, thr[t].pos)
                 IN  /\ ouiDb # 0
                     /\ thr[t].e[thr[t].pos].kind = "header"
                     /\ pre.err = NilErr
                     /\ heap[ouiDb] = pre.db
                     /\ sdb = pre.db
                     /\ dbTime = generatedAt(ZeroTime, pre.generated)
                     /\ sTime = generatedAt(ZeroTime, pre.generated)
           /\ ouiDb = 0 <=> thr[t].err \in Range(OpenErr)

\* Open has returned an error and a database with a record and a time.
C26_Witness ==
    \E t \in Threads :
        /\ Opened(t)
        /\ thr[t].err # NilErr
        /\ ouiDb # 0
        /\ heap[ouiDb] # EmptyDb
        /\ dbTime # ZeroTime

\* Goroutine t holds the lock shared: a LookUp from its RLock to its RUnlock,
\* and in part_001 a Generated likewise.
RHolds(t) ==
    \/ thr[t].pc \in {"LookUp_read", "LookUp_RUnlock"}
    \/ impl = "part_001" /\ thr[t].pc \in {"Generated_read", "Generated_RUnlock"}

\* The call of goroutine t is a LookUp that has not returned.
InLookUp(t) == thr[t].op \in {"LookUp", "Query"} /\ thr[t].pc \notin {"idle", "ret"}

\* Goroutine t has no call in progress.
AtRest(t) == thr[t].pc \in {"idle", "ret"}

\* C27: LookUps share the lock.  The shared holders of the mutex are the
\* goroutines between their RLock and their RUnlock, however many; a LookUp
\* holds it at its map access and at its RUnlock only, and not when it has
\* returned; and a LookUp that is at its RLock while every other goroutine
\* is in a LookUp or at rest can take the lock at once.
C27_LookUpsShare ==
    /\ mu.r = Cardinality({t \in Threads : RHolds(t)})
    /\ \A t \in Threads :
          /\ (thr[t].op \in {"LookUp", "Query"} /\ thr[t].pc = "ret") => ~RHolds(t)
          /\ (At(t, "LookUp_RLock") /\ \A u \in Threads \ {t} : InLookUp(u) \/ AtRest(u))
             => ENABLED LookUp_RLock(t)

\* Two LookUps hold the lock at the same time, each at its map access.
C27_Witness ==
    /\ mu.r = 2
    /\ \E t, u \in Threads : t # u /\ At(t, "LookUp_read") /\ At(u, "LookUp_read")

\* The step is one of a call op of goroutine t.
StepOf(t, op) == thr'[t] # thr[t] /\ op \in {thr[t].op, thr'[t].op}

\* C28: a replacement leaves the map it supersedes as it is.  No step changes
\* a map that has been the active one and is not the active one after the
\* step, the step of the swap included; no step of an Update changes a map
\* that is or has been the active one; and a step of an UpdateEntry or a
\* DeleteEntry changes no map but the active one.
C28_SupersededUntouched ==
    [][\A m \in DOMAIN heap :
          /\ (m \in Range(order') /\ m # ouiDb') => heap'[m] = heap[m]
          /\ \A t \in Threads :
                /\ (StepOf(t, "Update") /\ m \in Range(order)) => heap'[m] = heap[m]
                /\ ((StepOf(t, "UpdateEntry") \/ StepOf(t, "DeleteEntry")) /\ m # ouiDb)
                   => heap'[m] = heap[m]]_vars

\* An UpdateEntry has written after a replacement: the active map holds its
\* entry, and the superseded map holds for that key what it held before.
C28_Witness ==
    \E t \in Threads :
        /\ At(t, "UpdateEntry_Unlock")
        /\ Len(order) >= 2
        /\ MapGet(heap[ouiDb], thr[t].hw) = <<thr[t].e[1]>>
        /\ MapGet(heap[order[Len(order) - 1]], thr[t].hw) # <<thr[t].e[1]>>
        /\ heap[order[Len(order) - 1]] # EmptyDb

\* C29: Generated reads the time under the shared lock.  A goroutine at the
\* read of dbTime in Generated holds the lock shared, no goroutine holds it
\* exclusively, and none is at the write of dbTime inside updateDb.
C29_GeneratedReadLocked ==
    \A t \in Threads :
        At(t, "Generated_read")
        => /\ RHolds(t)
           /\ mu.r >= 1
           /\ ~mu.w
           /\ TimeWriters = {}

\* The step is a write of goroutine t to the entry a LookUp returned to it.
CallerWrites(t) == At(t, "ret") /\ thr'[t].pc = "ret" /\ thr'[t].val # thr[t].val

\* C30: the records of the stores are out of the caller's reach.  A write of
\* the caller to the Entry that LookUp returned, to a field or to an element
\* of Address, changes no record of the updateable store's maps nor of the
\* static store.
C30_RecordsOutOfReach ==
    [][\A t \in Threads : CallerWrites(t) => heap' = heap /\ sdb' = sdb]_vars

\* The Update of goroutine t has returned nil.
Updated(t) == thr[t].op = "Update" /\ thr[t].pc = "ret" /\ thr[t].err = NilErr

\* Goroutine t is inside updateDb with the lock taken.
InUpdateDb(t) == thr[t].pc \in {"updateDb_swap", "updateDb_generatedAt", "updateDb_Unlock"}

\* C31: two Updates at once end with one stream's parse.  Two goroutines are
\* never inside updateDb together, and their Updates parse into different
\* maps; and in the step in which an Update returns nil while the Update of
\* another goroutine, of a different stream, has returned nil, the active
\* map is the map of the one that returns, which swapped last, and its
\* content is the whole parse of that Update's stream and of no other.
C31_ConcurrentUpdates ==
    /\ [](\A t, u \in Threads :
             t # u
             => /\ ~(InUpdateDb(t) /\ InUpdateDb(u))
                /\ (thr[t].op = "Update" /\ thr[u].op = "Update")
                   => thr[t].dst # thr[u].dst)
    /\ [][\A t, u \in Threads :
             (/\ t # u
              /\ Updated(t)
              /\ thr[t].rd # thr[u].rd
              /\ At(u, "updateDb_Unlock")
              /\ thr'[u].pc = "ret")
             => /\ thr'[u].err = NilErr
                /\ Pos(order, thr[t].dst) < Pos(order, thr[u].dst)
                /\ ouiDb' = order'[Len(order')]
                /\ ouiDb' = thr[u].dst
                /\ heap'[ouiDb'] = Scanned[thr[u].rd].db
                /\ heap'[ouiDb'] # Scanned[thr[t].rd].db]_vars

\* Both Updates have returned, and they ran at the same time: the one that
\* was called first swapped last.
C31_Witness ==
    \E t, u \in Threads :
        /\ Updated(t) /\ Updated(u)
        /\ thr[t].rd # thr[u].rd
        /\ thr[t].dst < thr[u].dst
        /\ ouiDb = thr[t].dst
        /\ heap[ouiDb] = Scanned[thr[t].rd].db

\* The requests whose handler is inside update.
Updating == {r \in Requests : app.pc[r] \in {"update", "oui.Update"}}

\* C32: the service runs one update at a time.  At most one request's
\* handler is inside update, and then updating is true.
C32_OneUpdateAtATime ==
    /\ Cardinality(Updating) <= 1
    /\ Updating # {} => app.updating

====
